---------------------------- MODULE Spec2Model ----------------------------
(***************************************************************************)
(* Model of the nuclode knowledge engine: the flow-group partitioner       *)
(* (knowledge/engine/chunking.py), the cost tracker                        *)
(* (knowledge/engine/cost_tracker.py), the schema validator                *)
(* (knowledge/engine/schema.py) and the deterministic pipeline runner      *)
(* (knowledge/engine/pipeline.py).                                         *)
(*                                                                         *)
(* Namespace names are represented by their rank in lexicographic order:   *)
(* name 1 < name 2 < ... so that Python's string comparison and sorted()   *)
(* become integer comparison.  Segment(n) is the last dotted segment of    *)
(* name n; different names may end in the same segment ("a.core",          *)
(* "b.core").  Money is counted in millionths of a dollar.                 *)
(***************************************************************************)
EXTENDS Integers, Sequences, FiniteSets, TLC

\* ------------------------------------------------------------------ bounds
NumNames == 3      \* namespace names in the universe (known or external)
NumSegments == 2   \* distinct last dotted segments among those names
MaxEdges == 3      \* dependency edges in a structure
NumThreads == 2    \* threads that call CostTracker.record concurrently
MaxGroups == 2     \* dispatch groups of a pipeline run
MaxMembers == 4    \* namespaces in a structure given to the splitter
MaxEntries == 2    \* entries of a namespaces or data_flow list
MaxIdLen == 2      \* characters of an identifier or tag given to a bd wrapper
MaxAnalyses == 2   \* analyses given to reduce_to_beads
MaxIterations == 3 \* largest root_max_iterations of a REPL run
MaxPrompts == 2 \* longest prompt list of a batched call

Names == 1..NumNames
Segment(n) == ((n - 1) % NumSegments) + 1

\* ----------------------------------------------------------- Python helpers
Range(s) == { s[i] : i \in 1..Len(s) }

Min(S) == CHOOSE m \in S : \A x \in S : m <= x

\* sorted() of a collection of distinct keys
RECURSIVE SortedSet(_)
SortedSet(S) == IF S = {} THEN << >>
                ELSE LET m == Min(S) IN <<m>> \o SortedSet(S \ {m})

Reverse(s) == [ i \in 1..Len(s) |-> s[Len(s) + 1 - i] ]

RECURSIVE Insert(_, _)
Insert(x, s) == IF s = << >> THEN <<x>>
                ELSE IF x <= Head(s) THEN <<x>> \o s
                ELSE <<Head(s)>> \o Insert(x, Tail(s))

\* mutant: the list is left in the order it came in
sortedKeepsOrder(s) == s

\* sorted() of a list (duplicates kept)
RECURSIVE sorted(_)
sorted(s) == IF s = << >> THEN << >> ELSE Insert(Head(s), sorted(Tail(s)))

\* [x for x in s if x in S]
RECURSIVE FilterIn(_, _)
FilterIn(s, S) == IF s = << >> THEN << >>
                  ELSE IF Head(s) \in S THEN <<Head(s)>> \o FilterIn(Tail(s), S)
                  ELSE FilterIn(Tail(s), S)

\* dict.get(key, [])
GetList(d, key) == IF key \in DOMAIN d THEN d[key] ELSE << >>

VARIABLES
    \* --- partition_flow_groups
    structure,      \* StructureResult: namespaces (list of names), dependency_map
    p_pc,           \* "idle", "union", "done"
    all_names,      \* sorted(ns_by_name.keys())
    parent,         \* union-find parent pointers
    edge_k,         \* position in the (ns_name, dep) iteration of the union loop
    groups,         \* the returned list of FlowGroup
    \* --- CostTracker
    cfg,            \* GuardrailsConfig
    tracker,        \* the CostTracker's fields
    rec,            \* per thread (or pool task): its position inside record()
    checked,        \* the last check_guardrails call: what it read and returned
    \* --- PipelineRunner.run
    source_len,     \* len(source_by_namespace[name])
    max_workers,    \* run()'s max_workers argument
    oracle,         \* what the external model may answer for each dispatch group
    pl_pc,          \* position of the thread that called run()
    dispatch,       \* dispatch_groups
    fut,            \* the futures of the fan-out, in submission order
    yielded,        \* futures as_completed has handed to the loop body
    cancel_k,       \* position of the "for f in futures: f.cancel()" loop
    results_by_group,
    analyses,
    validation_errors,
    val_k,          \* position of the validation loop
    result,         \* the PipelineResult run() returned
    model_calls,    \* per dispatch group: model invocations made for it
    \* --- validate_flow_analysis
    raw_text,       \* the response text handed to validate_flow_analysis
    validated,      \* what the call returned or raised
    \* --- beads_tools
    bd_log,         \* the bd commands run so far, in order
    tool,           \* the tool call in progress: its arguments and position
    rd,             \* reduce_to_beads: its arguments, position and locals
    \* --- EngineRunner._run_repl_loop
    root_max_iterations,
    repl,           \* the loop's position and locals, and the calls it has made
    \* --- EngineRunner._call_sub_lm_batched
    batch,          \* the call's arguments, futures, position and locals
    \* --- CodebaseAnalyzer.run
    orch            \* the stored metadata, the repository state, run()'s position

partVars == <<structure, p_pc, all_names, parent, edge_k, groups>>
trackVars == <<cfg, tracker, rec, checked>>
runInputs == <<source_len, max_workers, oracle>>
pipeVars == <<source_len, max_workers, oracle, pl_pc, dispatch, fut, yielded, cancel_k,
              results_by_group, analyses, validation_errors, val_k, result, model_calls>>
schemaVars == <<raw_text, validated>>
beadsVars == <<bd_log, tool, rd>>
replVars == <<root_max_iterations, repl>>
batchVars == <<batch>>
orchVars == <<orch>>
vars == <<partVars, trackVars, pipeVars, schemaVars, beadsVars, replVars, batchVars, orchVars>>

\* ------------------------------------------------------- chunking.py model

\* find(x): path halving; returns the root and the updated parent map
RECURSIVE find(_, _)
find(par, x) ==
    IF par[x] = x THEN [parent |-> par, root |-> x]
    ELSE LET p2 == [par EXCEPT ![x] = par[par[x]]]
         IN find(p2, p2[x])

\* mutant: links b under a without looking up the roots
unionNoFind(par, a, b) == IF a # b THEN [par EXCEPT ![b] = a] ELSE par

\* mutant: the larger root name becomes the root
unionLargerRoot(par, a, b) ==
    LET fa == find(par, a)
        fb == find(fa.parent, b)
        ra == fa.root
        rb == fb.root
    IN IF ra # rb
       THEN IF ra > rb THEN [fb.parent EXCEPT ![rb] = ra]
                       ELSE [fb.parent EXCEPT ![ra] = rb]
       ELSE fb.parent

\* union(a, b): the smaller root name becomes the root
union(par, a, b) ==
    LET fa == find(par, a)
        fb == find(fa.parent, b)
        ra == fa.root
        rb == fb.root
    IN IF ra # rb
       THEN IF ra > rb THEN [fb.parent EXCEPT ![ra] = rb]
                       ELSE [fb.parent EXCEPT ![rb] = ra]
       ELSE fb.parent

\* keys of ns_by_name
KnownNames(st) == Range(st.namespaces)

\* the (ns_name, dep) pairs in the order the union loop visits them
RECURSIVE EdgeList(_, _)
EdgeList(st, names) ==
    IF names = << >> THEN << >>
    ELSE LET n == Head(names)
             deps == GetList(st.dependency_map, n)
         IN [ i \in 1..Len(deps) |-> <<n, deps[i]>> ] \o EdgeList(st, Tail(names))

\* for name in all_names: root = find(name) -- the roots, with path halving applied
RECURSIVE FindAll(_, _)
FindAll(par, names) ==
    IF names = << >> THEN [parent |-> par, roots |-> << >>]
    ELSE LET f == find(par, Head(names))
             rest == FindAll(f.parent, Tail(names))
         IN [parent |-> rest.parent, roots |-> <<f.root>> \o rest.roots]

\* mutant: a component of several names loses its last one
ComponentMembersDropLast(names, roots, root) ==
    LET idx == { i \in 1..Len(names) : roots[i] = root }
        kept == IF Cardinality(idx) > 1 THEN Cardinality(idx) - 1 ELSE Cardinality(idx)
    IN [ k \in 1..kept |->
            names[CHOOSE i \in idx : Cardinality({ j \in idx : j < i }) = k - 1] ]

\* components[root]: the names whose root is root, in all_names order
ComponentMembers(names, roots, root) ==
    LET idx == { i \in 1..Len(names) : roots[i] = root }
    IN [ k \in 1..Cardinality(idx) |->
            names[CHOOSE i \in idx : Cardinality({ j \in idx : j < i }) = k - 1] ]

\* internal_deps of a member list: only edges within the group, sorted
InternalDeps(st, members) ==
    LET member_set == Range(members)
        deps_in_group(n) == FilterIn(GetList(st.dependency_map, n), member_set)
        keys == { n \in member_set : deps_in_group(n) # << >> }
    IN [ n \in keys |-> sorted(deps_in_group(n)) ]

RequiredBy(internal_deps) ==
    UNION { Range(internal_deps[n]) : n \in DOMAIN internal_deps }

GroupName(members) == [seg |-> Segment(members[1]), part |-> 0]

\* mutant: entry points and exit points change places
MakeFlowGroupSwapped(st, members) ==
    LET internal_deps == InternalDeps(st, members)
        required_by_others == RequiredBy(internal_deps)
    IN [ name |-> GroupName(members),
         namespaces |-> members,
         entry_points |-> sorted(SelectSeq(members, LAMBDA n : n \notin required_by_others)),
         exit_points |-> sorted(SelectSeq(members, LAMBDA n : n \notin DOMAIN internal_deps)),
         internal_deps |-> internal_deps ]

MakeFlowGroup(st, members) ==
    LET internal_deps == InternalDeps(st, members)
        required_by_others == RequiredBy(internal_deps)
    IN [ name |-> GroupName(members),
         namespaces |-> members,
         entry_points |-> sorted(SelectSeq(members, LAMBDA n : n \notin DOMAIN internal_deps)),
         exit_points |-> sorted(SelectSeq(members, LAMBDA n : n \notin required_by_others)),
         internal_deps |-> internal_deps ]

BuildFlowGroups(st, par, names) ==
    LET fa == FindAll(par, names)
        rootList == SortedSet(Range(fa.roots))
    IN [ g \in 1..Len(rootList) |->
            MakeFlowGroup(st, ComponentMembers(names, fa.roots, rootList[g])) ]

\* ---- partition_flow_groups, step by step

PartitionBegin ==
    /\ p_pc = "idle"
    /\ IF structure.namespaces = << >>
       THEN /\ groups' = << >>
            /\ p_pc' = "done"
            /\ UNCHANGED <<all_names, parent, edge_k>>
       ELSE /\ all_names' = SortedSet(KnownNames(structure))
            /\ parent' = [ n \in KnownNames(structure) |-> n ]
            /\ edge_k' = 1
            /\ p_pc' = "union"
            /\ UNCHANGED groups
    /\ UNCHANGED <<structure, trackVars, pipeVars, schemaVars, beadsVars, replVars, batchVars, orchVars>>

UnionStep ==
    /\ p_pc = "union"
    /\ LET edges == EdgeList(structure, all_names)
       IN /\ edge_k <= Len(edges)
          /\ parent' = IF edges[edge_k][2] \in KnownNames(structure)
                       THEN union(parent, edges[edge_k][1], edges[edge_k][2])
                       ELSE parent
          /\ edge_k' = edge_k + 1
    /\ UNCHANGED <<structure, p_pc, all_names, groups, trackVars, pipeVars, schemaVars, beadsVars, replVars, batchVars, orchVars>>

PartitionFinish ==
    /\ p_pc = "union"
    /\ edge_k > Len(EdgeList(structure, all_names))
    /\ groups' = BuildFlowGroups(structure, parent, all_names)
    /\ parent' = FindAll(parent, all_names).parent
    /\ p_pc' = "done"
    /\ UNCHANGED <<structure, all_names, edge_k, trackVars, pipeVars, schemaVars, beadsVars, replVars, batchVars, orchVars>>

\* partition_flow_groups as a function of its argument
RECURSIVE UnionAll(_, _, _)
UnionAll(par, edges, known) ==
    IF edges = << >> THEN par
    ELSE UnionAll(IF Head(edges)[2] \in known
                  THEN union(par, Head(edges)[1], Head(edges)[2]) ELSE par,
                  Tail(edges), known)

partition_flow_groups(st) ==
    IF st.namespaces = << >> THEN << >>
    ELSE LET names == SortedSet(KnownNames(st))
             par == UnionAll([ n \in KnownNames(st) |-> n ], EdgeList(st, names), KnownNames(st))
         IN BuildFlowGroups(st, par, names)

\* ---- inputs of the partitioner

NoEdge == <<0, 0>>

\* the edge sets with at most MaxEdges edges leaving the names of K
EdgeSets(K) ==
    { { s[i] : i \in 1..MaxEdges } \ {NoEdge} :
        s \in [ 1..MaxEdges -> (K \X Names) \cup {NoEdge} ] }

DepList(E, n, descending) ==
    LET asc == SortedSet({ d \in Names : <<n, d>> \in E })
    IN IF descending THEN Reverse(asc) ELSE asc

Structures ==
    { [ namespaces |-> IF nsDesc THEN Reverse(SortedSet(K)) ELSE SortedSet(K),
        dependency_map |-> [ n \in K |-> DepList(E, n, depDesc) ] ] :
      <<K, E, nsDesc, depDesc>> \in
        UNION { { <<K0, E0, b1, b2>> : E0 \in EdgeSets(K0), b1 \in BOOLEAN, b2 \in BOOLEAN } :
                K0 \in SUBSET Names } }

\* --------------------------------------------------- cost_tracker.py model
\* Money is counted in millionths of a dollar: a price of p dollars per
\* million tokens costs p millionths of a dollar per token.

SONNET == "anthropic/claude-sonnet-4-6"
OPUS == "anthropic/claude-opus-4-6"
HAIKU == "anthropic/claude-haiku-4-5-20251001"
UNKNOWN_MODEL == "some-other-model"
Models == {OPUS, SONNET, HAIKU, UNKNOWN_MODEL}

DEFAULT_PRICING == [input |-> 15, output |-> 75]

MODEL_PRICING(model) ==
    CASE model = OPUS -> [input |-> 15, output |-> 75]
      [] model = SONNET -> [input |-> 3, output |-> 15]
      [] model = HAIKU -> [input |-> 1, output |-> 5]
      [] OTHER -> DEFAULT_PRICING

\* GuardrailsConfig() defaults
DefaultGuardrails ==
    [enabled |-> TRUE, max_cost_per_run_usd |-> 50000000,
     warn_cost_threshold_usd |-> 30000000, max_sub_lm_calls |-> 500]

\* CostTracker.__init__
NewTracker ==
    [total_input_tokens |-> 0, total_output_tokens |-> 0, total_cost |-> 0,
     calls_by_model |-> [m \in Models |-> 0], sub_lm_calls |-> 0]

\* record() is five read-modify-write statements, in this order
RecordFields ==
    <<"total_input_tokens", "total_output_tokens", "total_cost",
      "calls_by_model", "sub_lm_calls">>

\* the amount statement k of record() adds
RecordDelta(k, a) ==
    CASE k = 1 -> a.input_tokens
      [] k = 2 -> a.output_tokens
      [] k = 3 -> MODEL_PRICING(a.model).input * a.input_tokens
                  + MODEL_PRICING(a.model).output * a.output_tokens
      [] k = 4 -> 1
      [] k = 5 -> 1

\* the value statement k of record() reads
FieldRead(tr, k, model) ==
    IF k = 4 THEN tr.calls_by_model[model] ELSE tr[RecordFields[k]]

\* the tracker after statement k of record() has written v
FieldWrite(tr, k, model, v) ==
    IF k = 4 THEN [tr EXCEPT !.calls_by_model[model] = v]
    ELSE [tr EXCEPT ![RecordFields[k]] = v]

\* record() run by one thread without interference
RECURSIVE RecordFrom(_, _, _)
RecordFrom(tr, k, a) ==
    IF k > 5 THEN tr
    ELSE RecordFrom(FieldWrite(tr, k, a.model, FieldRead(tr, k, a.model) + RecordDelta(k, a)),
                    k + 1, a)

record(tr, model, input_tokens, output_tokens) ==
    RecordFrom(tr, 1, [model |-> model, input_tokens |-> input_tokens,
                       output_tokens |-> output_tokens])

\* record() run by a thread that read every field when the tracker was
\* `seen' and writes them to tr: what the other threads wrote in between to
\* the fields it writes is overwritten
RECURSIVE RecordOver(_, _, _, _)
RecordOver(tr, seen, k, a) ==
    IF k > 5 THEN tr
    ELSE RecordOver(FieldWrite(tr, k, a.model,
                               FieldRead(seen, k, a.model) + RecordDelta(k, a)),
                    seen, k + 1, a)

\* mutant: a ceiling or threshold is passed only when it is exceeded
check_guardrails_strict(c, tr) ==
    IF ~c.enabled THEN "ok"
    ELSE IF tr.total_cost > c.max_cost_per_run_usd THEN "exceeded"
    ELSE IF tr.sub_lm_calls > c.max_sub_lm_calls THEN "exceeded"
    ELSE IF tr.total_cost > c.warn_cost_threshold_usd THEN "warning"
    ELSE "ok"

check_guardrails(c, tr) ==
    IF ~c.enabled THEN "ok"
    ELSE IF tr.total_cost >= c.max_cost_per_run_usd THEN "exceeded"
    ELSE IF tr.sub_lm_calls >= c.max_sub_lm_calls THEN "exceeded"
    ELSE IF tr.total_cost >= c.warn_cost_threshold_usd THEN "warning"
    ELSE "ok"

summary(c, tr) ==
    [total_cost_usd |-> tr.total_cost,
     total_input_tokens |-> tr.total_input_tokens,
     total_output_tokens |-> tr.total_output_tokens,
     calls_by_model |-> tr.calls_by_model,
     status |-> check_guardrails(c, tr)]

\* ---- record(), statement by statement, as a thread runs it.
\* rec[t].pc: 0 = not in record(); 2k-1 = statement k has read its field into
\* rec[t].reg; 2k = statement k has written; 10 = record() has returned.

NoRecord == [pc |-> 0, reg |-> 0, model |-> SONNET, input_tokens |-> 0, output_tokens |-> 0]

\* entering record(): the arguments are bound and statement 1 reads its field
EnterRecord(tr, model, input_tokens, output_tokens) ==
    [pc |-> 1, reg |-> FieldRead(tr, 1, model), model |-> model,
     input_tokens |-> input_tokens, output_tokens |-> output_tokens]

RecordLoad(t) ==
    /\ rec[t].pc \in {2, 4, 6, 8}
    /\ rec' = [rec EXCEPT ![t].pc = @ + 1,
                          ![t].reg = FieldRead(tracker, (rec[t].pc \div 2) + 1, rec[t].model)]
    /\ UNCHANGED <<cfg, tracker, checked>>

RecordStore(t) ==
    /\ rec[t].pc \in {1, 3, 5, 7, 9}
    /\ LET k == (rec[t].pc + 1) \div 2
       IN tracker' = FieldWrite(tracker, k, rec[t].model, rec[t].reg + RecordDelta(k, rec[t]))
    /\ rec' = [rec EXCEPT ![t].pc = @ + 1]
    /\ UNCHANGED <<cfg, checked>>

\* ---- several threads share one tracker and call record() once each

\* the usages the calls report: (model, input tokens, output tokens)
RecordArgs == { <<SONNET, 1, 1>>, <<UNKNOWN_MODEL, 2, 0>> }

ThreadCallsRecord(t) ==
    /\ rec[t].pc = 0
    /\ \E a \in RecordArgs : rec' = [rec EXCEPT ![t] = EnterRecord(tracker, a[1], a[2], a[3])]
    /\ UNCHANGED <<cfg, tracker, checked, partVars, schemaVars, beadsVars, replVars, batchVars, orchVars, pipeVars>>

ThreadLoads(t) == RecordLoad(t) /\ UNCHANGED <<partVars, schemaVars, beadsVars, replVars, batchVars, orchVars, pipeVars>>

ThreadStores(t) == RecordStore(t) /\ UNCHANGED <<partVars, schemaVars, beadsVars, replVars, batchVars, orchVars, pipeVars>>


\* ---- check_guardrails() called while threads record.  checked.status is
\* the status the last completed call returned ("none" before the first);
\* checked.reading holds between a call's read of _total_cost and its read of
\* _sub_lm_calls; checked.cost and checked.calls are the values the last call
\* read (0 for a field it did not read).

NoCheck == [status |-> "none", reading |-> FALSE, cost |-> 0, calls |-> 0]

\* the tracker as a check has read it
AsRead(tr, cost, calls) == [tr EXCEPT !.total_cost = cost, !.sub_lm_calls = calls]

\* check_guardrails up to its read of _total_cost; it returns there if the
\* guardrails are disabled or the cost is at the ceiling
CheckBegins ==
    /\ ~checked.reading
    /\ checked' =
          IF ~cfg.enabled
          THEN [status |-> check_guardrails(cfg, tracker), reading |-> FALSE,
                cost |-> 0, calls |-> 0]
          ELSE IF tracker.total_cost >= cfg.max_cost_per_run_usd
          THEN [status |-> check_guardrails(cfg, tracker), reading |-> FALSE,
                cost |-> tracker.total_cost, calls |-> 0]
          ELSE [checked EXCEPT !.reading = TRUE, !.cost = tracker.total_cost, !.calls = 0]
    /\ UNCHANGED <<cfg, tracker, rec, partVars, schemaVars, beadsVars, replVars, batchVars, orchVars, pipeVars>>

\* check_guardrails from its read of _sub_lm_calls to its return
CheckEnds ==
    /\ checked.reading
    /\ checked' =
          [status |-> check_guardrails(cfg, AsRead(tracker, checked.cost, tracker.sub_lm_calls)),
           reading |-> FALSE, cost |-> checked.cost, calls |-> tracker.sub_lm_calls]
    /\ UNCHANGED <<cfg, tracker, rec, partVars, schemaVars, beadsVars, replVars, batchVars, orchVars, pipeVars>>

\* a thread enters record() and reads the fields
ThreadEntersRecord(t) ==
    /\ rec[t].pc = 0
    /\ \E a \in RecordArgs :
          rec' = [rec EXCEPT ![t] = [pc |-> 1, seen |-> tracker, model |-> a[1],
                                     input_tokens |-> a[2], output_tokens |-> a[3]]]
    /\ UNCHANGED <<cfg, tracker, checked, partVars, schemaVars, beadsVars, replVars, batchVars, orchVars, pipeVars>>

\* the thread writes the fields, each from the value it read, and returns; the
\* reads of one call are taken together, and so are its writes
ThreadWritesRecord(t) ==
    /\ rec[t].pc = 1
    /\ tracker' = RecordOver(tracker, rec[t].seen, 1, rec[t])
    /\ rec' = [rec EXCEPT ![t].pc = 10, ![t].seen = NewTracker]
    /\ UNCHANGED <<cfg, checked, partVars, schemaVars, beadsVars, replVars, batchVars, orchVars, pipeVars>>

\* the configurations the checks run under: a cost ceiling one unknown-model
\* call of RecordArgs reaches and a warning threshold one sonnet call reaches;
\* a call ceiling of two; guardrails disabled
CostCeiling ==
    [enabled |-> TRUE, max_cost_per_run_usd |-> 30, warn_cost_threshold_usd |-> 18,
     max_sub_lm_calls |-> 500]

CallCeiling == [DefaultGuardrails EXCEPT !.max_sub_lm_calls = 2]

DisabledCeilings == [CostCeiling EXCEPT !.enabled = FALSE, !.max_sub_lm_calls = 1]

GuardConfigs == { CostCeiling, CallCeiling, DisabledCeilings }
\* --------------------------------------------------------- schema.py model
\* A response text is described by what _extract_json and json.loads see in
\* it: whether it holds a ``` fence, whether prose surrounds the payload, and
\* the payload.  A payload is of kind "empty" (nothing), "garbage" (text
\* without braces that is not JSON), "array" (a JSON value that is not an
\* object) or "object".  An object is described by the top-level keys it holds
\* and by its namespaces and data_flow values; such a value is null or a list
\* of entries, each a non-dict or a dict described by the keys it holds.
\* origin names the call that produced the text.

REQUIRED ==
    {"flow_name", "entry_points", "exit_points", "namespaces",
     "data_flow", "bottlenecks", "security_findings", "coupling_issues"}

NAMESPACE_REQUIRED == {"name", "layer", "role", "side_effects", "security_notes"}

DATA_FLOW_REQUIRED == {"from", "to", "transforms"}

JsonNull == [list |-> FALSE, entries |-> << >>]
JsonList(entries) == [list |-> TRUE, entries |-> entries]

NonObject(kind) == [kind |-> kind, keys |-> {}, namespaces |-> JsonNull, data_flow |-> JsonNull]
Object(keys, namespaces, data_flow) ==
    [kind |-> "object", keys |-> keys, namespaces |-> namespaces, data_flow |-> data_flow]

\* _extract_json followed by json.loads: the parsed value, or ok = FALSE for a
\* JSONDecodeError
ParseJson(raw) ==
    IF raw.fence
    THEN [ok |-> raw.payload.kind \in {"array", "object"}, value |-> raw.payload]
    ELSE IF raw.payload.kind = "object" THEN [ok |-> TRUE, value |-> raw.payload]
    ELSE [ok |-> raw.payload.kind = "array" /\ ~raw.prose, value |-> raw.payload]

Outcome(status, text, index, fields, data) ==
    [status |-> status, msg |-> [text |-> text, index |-> index, fields |-> fields],
     data |-> data]

\* the first failure of the per-entry loop over a list value, or "ok"
RECURSIVE CheckEntries(_, _, _, _, _)
CheckEntries(entries, required, what, i, data) ==
    IF i > Len(entries) THEN Outcome("ok", "", 0, {}, data)
    ELSE IF ~entries[i].dict
         THEN Outcome("ValidationError", what \o " must be a dict", i, {}, data)
    ELSE IF required \ entries[i].keys # {}
         THEN Outcome("ValidationError", what \o " missing required", i,
                      required \ entries[i].keys, data)
    ELSE CheckEntries(entries, required, what, i + 1, data)

\* no call of validate_flow_analysis has been made
NotValidated == Outcome("none", "", 0, {}, NonObject("empty"))

\* validate_flow_analysis: status "ok" and the parsed object, or the exception
\* it raises with its message
validate_flow_analysis(raw) ==
    LET parsed == ParseJson(raw)
        data == parsed.value
    IN IF ~parsed.ok THEN Outcome("ValidationError", "Invalid JSON", 0, {}, data)
       ELSE IF data.kind # "object"
       THEN Outcome("ValidationError", "Expected JSON object", 0, {}, data)
       ELSE IF REQUIRED \ data.keys # {}
       THEN Outcome("ValidationError", "missing required fields", 0, REQUIRED \ data.keys, data)
       ELSE IF ~data.namespaces.list
       THEN Outcome("TypeError", "object is not iterable", 0, {}, data)
       ELSE LET ns == CheckEntries(data.namespaces.entries, NAMESPACE_REQUIRED,
                                   "namespace", 1, data)
            IN IF ns.status # "ok" THEN ns
               ELSE IF ~data.data_flow.list
               THEN Outcome("TypeError", "object is not iterable", 0, {}, data)
               ELSE CheckEntries(data.data_flow.entries, DATA_FLOW_REQUIRED,
                                 "data_flow", 1, data)

NoCall == [group |-> 0, retry |-> FALSE]

Text(fence, prose, payload, origin) ==
    [fence |-> fence, prose |-> prose, payload |-> payload, origin |-> origin]

\* the empty string
EmptyText == Text(FALSE, FALSE, NonObject("empty"), NoCall)

\* "if not raw"
IsEmptyText(raw) == raw.payload.kind = "empty" /\ ~raw.fence /\ ~raw.prose

ValidDoc ==
    Object(REQUIRED, JsonList(<< [dict |-> TRUE, keys |-> NAMESPACE_REQUIRED] >>),
           JsonList(<< >>))

\* an object without its flow_name
MissingFieldDoc ==
    Object(REQUIRED \ {"flow_name"},
           JsonList(<< [dict |-> TRUE, keys |-> NAMESPACE_REQUIRED] >>), JsonList(<< >>))

NullNamespacesDoc == Object(REQUIRED, JsonNull, JsonList(<< >>))


\* ----------------------------------------------------- beads_tools.py model
\* A string is a sequence of characters over a small alphabet: a character
\* of the allow-list, a character outside it, and the newline (which "$"
\* of a Python regular expression lets pass at the very end).

AllowedChars == {"a", "-"}
Chars == {"a", ";", "\n"}

\* re.match(r"^[a-zA-Z0-9\-_]+$", s): one or more allowed characters up to
\* the end of the string or up to a newline that ends the string
MatchesAllowList(s) ==
    LET body == IF Len(s) >= 1 /\ s[Len(s)] = "\n" THEN SubSeq(s, 1, Len(s) - 1) ELSE s
    IN Len(body) >= 1 /\ \A i \in 1..Len(body) : body[i] \in AllowedChars

VALID_REL_TYPES == {"depends-on", "relates-to", "blocks"}

\* the steps a wrapper executes: a check that raises ValueError when it
\* fails, or one bd command
CheckId(s) == [op |-> "check", ok |-> MatchesAllowList(s), argv |-> << >>]
CheckTag(s) == [op |-> "check", ok |-> MatchesAllowList(s), argv |-> << >>]
CheckRel(r) == [op |-> "check", ok |-> r \in VALID_REL_TYPES, argv |-> << >>]
RunBd(argv) == [op |-> "bd", ok |-> TRUE, argv |-> argv]

create_bead(tags) ==
    [ i \in 1..Len(tags) |-> CheckTag(tags[i]) ] \o << RunBd(<<"create", tags>>) >>

link_beads(from_id, to_id, rel_type) ==
    << CheckId(from_id), CheckId(to_id), CheckRel(rel_type),
       IF rel_type = "blocks" THEN RunBd(<<"dep", to_id, from_id>>)
       ELSE RunBd(<<"dep", from_id, to_id>>) >>

\* mutant: each tag is checked just before its own bd command
tag_bead_interleaved(bead_id, tags) ==
    << CheckId(bead_id) >> \o
    [ i \in 1..(2 * Len(tags)) |->
        IF i % 2 = 1 THEN CheckTag(tags[(i + 1) \div 2])
        ELSE RunBd(<<"label", bead_id, tags[i \div 2]>>) ]

tag_bead(bead_id, tags) ==
    << CheckId(bead_id) >>
        \o [ i \in 1..Len(tags) |-> CheckTag(tags[i]) ]
        \o [ i \in 1..Len(tags) |-> RunBd(<<"label", bead_id, tags[i]>>) ]

comment_bead(bead_id) == << CheckId(bead_id), RunBd(<<"comments", bead_id>>) >>

close_bead(bead_id) == << CheckId(bead_id), RunBd(<<"close", bead_id>>) >>

\* a call of one of the five wrappers: which one, its identifier arguments,
\* its tags and its rel_type
ToolCall(name, ids, tags, rel) == [name |-> name, ids |-> ids, tags |-> tags, rel |-> rel]

StepsOf(call) ==
    CASE call.name = "create_bead" -> create_bead(call.tags)
      [] call.name = "link_beads" -> link_beads(call.ids[1], call.ids[2], call.rel)
      [] call.name = "tag_bead" -> tag_bead(call.ids[1], call.tags)
      [] call.name = "comment_bead" -> comment_bead(call.ids[1])
      [] OTHER -> close_bead(call.ids[1])

NoToolCall == [call |-> ToolCall("none", << >>, << >>, ""), pc |-> 0, status |-> "none",
               success |-> TRUE]

\* what one subprocess.run of bd can end in: exit code 0, another exit code,
\* or subprocess.TimeoutExpired after 30 seconds
BdOutcomes == {"zero", "nonzero", "timeout"}

\* the wrapper evaluates its next check
ToolChecks ==
    /\ tool.status = "running"
    /\ tool.pc <= Len(StepsOf(tool.call))
    /\ StepsOf(tool.call)[tool.pc].op = "check"
    /\ tool' = IF StepsOf(tool.call)[tool.pc].ok
               THEN [tool EXCEPT !.pc = @ + 1]
               ELSE [tool EXCEPT !.status = "ValueError"]
    /\ UNCHANGED <<bd_log, rd, partVars, trackVars, pipeVars, schemaVars, replVars, batchVars, orchVars>>

\* the wrapper runs its next bd command
ToolRunsBd ==
    /\ tool.status = "running"
    /\ tool.pc <= Len(StepsOf(tool.call))
    /\ StepsOf(tool.call)[tool.pc].op = "bd"
    /\ \E out \in BdOutcomes :
          /\ bd_log' = Append(bd_log, [argv |-> StepsOf(tool.call)[tool.pc].argv, out |-> out])
          /\ tool' = IF out = "timeout" THEN [tool EXCEPT !.status = "TimeoutExpired"]
                     ELSE IF out = "nonzero" /\ tool.call.name = "create_bead"
                     THEN [tool EXCEPT !.status = "RuntimeError"]
                     ELSE [tool EXCEPT !.pc = @ + 1,
                                       !.success = @ /\ out = "zero"]
    /\ UNCHANGED <<rd, partVars, trackVars, pipeVars, schemaVars, replVars, batchVars, orchVars>>

ToolReturns ==
    /\ tool.status = "running"
    /\ tool.pc > Len(StepsOf(tool.call))
    /\ tool' = [tool EXCEPT !.status = "returned"]
    /\ UNCHANGED <<bd_log, rd, partVars, trackVars, pipeVars, schemaVars, replVars, batchVars, orchVars>>

\* ---- reduce_to_beads
\* An analysis is described by its flow_name, the names of its namespace
\* entries, the layer of its namespaces (a string, "" for none) and the "to"
\* names of its data_flow edges.  A record identifier is the number of the
\* bd create command that returned it.

Analysis(flow_name, namespaces, layer, data_flow) ==
    [flow_name |-> flow_name, namespaces |-> namespaces, layer |-> layer,
     data_flow |-> data_flow]

\* sorted(tags): "structure" and, for a non-empty layer, "diplomat-{layer}"
TagList(analysis) ==
    IF analysis.layer = << >> THEN << <<"a">> >>
    ELSE << <<"a", "-">> \o analysis.layer, <<"a">> >>

\* _find_flow_for_namespace: the flow_name of the first analysis that lists
\* ns_name, or 0 for None
find_flow_for_namespace(ns_name, flow_analyses) ==
    LET holders == { k \in 1..Len(flow_analyses) : ns_name \in flow_analyses[k].namespaces }
    IN IF holders = {} THEN 0 ELSE flow_analyses[Min(holders)].flow_name

NoBead == 0

\* bead_ids.get(flow_name)
GetBead(bead_ids, flow_name) ==
    IF flow_name \in DOMAIN bead_ids THEN bead_ids[flow_name] ELSE NoBead

PutBead(bead_ids, flow_name, bead_id) ==
    [ f \in DOMAIN bead_ids \cup {flow_name} |->
        IF f = flow_name THEN bead_id ELSE bead_ids[f] ]

NoReduction ==
    [analyses |-> << >>, pc |-> "unused", i |-> 0, e |-> 0, bead_ids |-> << >>,
     beads_created |-> 0, links_created |-> 0, tags_applied |-> 0, exc |-> "none"]

ReductionOf(flow_analyses) ==
    [NoReduction EXCEPT !.analyses = flow_analyses, !.pc = "create", !.i = 1]

\* the bd commands of one create_bead or tag_bead call, all ending as out;
\* flow and edge tell which loop iteration ran a command
BdEntries(steps, flow, out) ==
    LET cmds == SelectSeq(steps, LAMBDA st : st.op = "bd")
    IN [ k \in 1..Len(cmds) |-> [argv |-> cmds[k].argv, flow |-> flow, edge |-> 0, out |-> out] ]

ChecksPass(steps) == \A k \in 1..Len(steps) : steps[k].ok

\* the identifier bd create prints for the record of analysis i
NewBeadId(i) == i

\* the text of an identifier bd printed: allowed characters only
IdString(bead_id) == <<"a">>

\* one iteration of the first loop: create the record of analysis i, then
\* tag it
ReduceCreates ==
    /\ rd.pc = "create"
    /\ rd.i <= Len(rd.analyses)
    /\ LET analysis == rd.analyses[rd.i]
           tags == TagList(analysis)
           creating == create_bead(tags)
           tagging == tag_bead(IdString(NewBeadId(rd.i)), tags)
       IN IF ~ChecksPass(creating)
          THEN /\ rd' = [rd EXCEPT !.pc = "raised", !.exc = "ValueError"]
               /\ UNCHANGED bd_log
          ELSE \E created \in BdOutcomes :
                 IF created = "timeout"
                 THEN /\ bd_log' = bd_log \o BdEntries(creating, rd.i, created)
                      /\ rd' = [rd EXCEPT !.pc = "raised", !.exc = "TimeoutExpired"]
                 ELSE IF created = "nonzero"
                 THEN /\ bd_log' = bd_log \o BdEntries(creating, rd.i, created)
                      /\ rd' = [rd EXCEPT !.i = @ + 1]
                 ELSE \E tagged \in BdOutcomes :
                        /\ bd_log' = bd_log \o BdEntries(creating, rd.i, created)
                                            \o (IF tagged = "timeout"
                                                THEN SubSeq(BdEntries(tagging, rd.i, tagged), 1, 1)
                                                ELSE BdEntries(tagging, rd.i, tagged))
                        /\ rd' = IF tagged = "timeout"
                                 THEN [rd EXCEPT !.pc = "raised", !.exc = "TimeoutExpired",
                                          !.bead_ids = PutBead(@, analysis.flow_name, NewBeadId(rd.i)),
                                          !.beads_created = @ + 1]
                                 ELSE [rd EXCEPT !.i = @ + 1,
                                          !.bead_ids = PutBead(@, analysis.flow_name, NewBeadId(rd.i)),
                                          !.beads_created = @ + 1,
                                          !.tags_applied = @ + Len(tags)]
    /\ UNCHANGED <<tool, partVars, trackVars, pipeVars, schemaVars, replVars, batchVars, orchVars>>

\* the first loop is over: the second loop starts
ReduceStartsLinking ==
    /\ rd.pc = "create"
    /\ rd.i > Len(rd.analyses)
    /\ rd' = [rd EXCEPT !.pc = "link", !.i = 1, !.e = 1]
    /\ UNCHANGED <<bd_log, tool, partVars, trackVars, pipeVars, schemaVars, replVars, batchVars, orchVars>>

\* the second loop passes an analysis that has no record, or whose edges
\* are all done
ReduceNextAnalysis ==
    /\ rd.pc = "link"
    /\ rd.i <= Len(rd.analyses)
    /\ \/ GetBead(rd.bead_ids, rd.analyses[rd.i].flow_name) = NoBead
       \/ rd.e > Len(rd.analyses[rd.i].data_flow)
    /\ rd' = [rd EXCEPT !.i = @ + 1, !.e = 1]
    /\ UNCHANGED <<bd_log, tool, partVars, trackVars, pipeVars, schemaVars, replVars, batchVars, orchVars>>

\* mutant: the link is issued whether or not the target flow has a record
ReduceLinksUncreated ==
    /\ rd.pc = "link"
    /\ rd.i <= Len(rd.analyses)
    /\ LET analysis == rd.analyses[rd.i]
           bead_id == GetBead(rd.bead_ids, analysis.flow_name)
       IN /\ bead_id # NoBead
          /\ rd.e <= Len(analysis.data_flow)
          /\ LET target_flow == find_flow_for_namespace(analysis.data_flow[rd.e], rd.analyses)
                 target_bead_id == GetBead(rd.bead_ids, target_flow)
             IN IF target_flow # 0 /\ target_flow # analysis.flow_name
                THEN \E out \in BdOutcomes :
                       /\ bd_log' = Append(bd_log,
                              [argv |-> <<"dep", bead_id, target_bead_id>>, flow |-> rd.i,
                               edge |-> rd.e, out |-> out])
                       /\ rd' = IF out = "timeout"
                                THEN [rd EXCEPT !.pc = "raised", !.exc = "TimeoutExpired"]
                                ELSE [rd EXCEPT !.e = @ + 1, !.links_created = @ + 1]
                ELSE /\ rd' = [rd EXCEPT !.e = @ + 1]
                     /\ UNCHANGED bd_log
    /\ UNCHANGED <<tool, partVars, trackVars, pipeVars, schemaVars, replVars, batchVars, orchVars>>

\* the second loop handles one data_flow edge
ReduceLinks ==
    /\ rd.pc = "link"
    /\ rd.i <= Len(rd.analyses)
    /\ LET analysis == rd.analyses[rd.i]
           bead_id == GetBead(rd.bead_ids, analysis.flow_name)
       IN /\ bead_id # NoBead
          /\ rd.e <= Len(analysis.data_flow)
          /\ LET target_flow == find_flow_for_namespace(analysis.data_flow[rd.e], rd.analyses)
                 target_bead_id == GetBead(rd.bead_ids, target_flow)
             IN IF target_flow # 0 /\ target_flow # analysis.flow_name
                   /\ target_bead_id # NoBead
                THEN \E out \in BdOutcomes :
                       /\ bd_log' = Append(bd_log,
                              [argv |-> <<"dep", bead_id, target_bead_id>>, flow |-> rd.i,
                               edge |-> rd.e, out |-> out])
                       /\ rd' = IF out = "timeout"
                                THEN [rd EXCEPT !.pc = "raised", !.exc = "TimeoutExpired"]
                                ELSE [rd EXCEPT !.e = @ + 1, !.links_created = @ + 1]
                ELSE /\ rd' = [rd EXCEPT !.e = @ + 1]
                     /\ UNCHANGED bd_log
    /\ UNCHANGED <<tool, partVars, trackVars, pipeVars, schemaVars, replVars, batchVars, orchVars>>

\* both loops are over: the summary is returned
ReduceReturns ==
    /\ rd.pc = "link"
    /\ rd.i > Len(rd.analyses)
    /\ rd' = [rd EXCEPT !.pc = "returned"]
    /\ UNCHANGED <<bd_log, tool, partVars, trackVars, pipeVars, schemaVars, replVars, batchVars, orchVars>>

BeadsUnused ==
    /\ bd_log = << >>
    /\ tool = NoToolCall
    /\ rd = NoReduction

\* ------------------------------------- runner.py model: _run_repl_loop
\* repl.pc is the position of the loop: "head" (the for statement), "call"
\* (the guardrail check of this iteration has passed), "exec" (the root
\* model has answered), "returned" or "raised".  iteration is the loop
\* variable, root_calls counts the calls of _call_root_lm, final and
\* final_arg tell whether the code executed last called FINAL and with what,
\* ended how its execution ended otherwise,
\* final_calls counts the iterations whose code called FINAL.

NoRepl ==
    [pc |-> "unused", iteration |-> 0, iterations |-> 0, guard |-> "none",
     root_calls |-> 0, status |-> "none", output |-> "none",
     final |-> "none", final_arg |-> "none", ended |-> "none", final_calls |-> 0]

ReplStart == [NoRepl EXCEPT !.pc = "head"]

EngineResult(r, status, output) ==
    [r EXCEPT !.pc = "returned", !.status = status, !.output = output]

\* what the root model's call costs
RootUsage == [model |-> OPUS, input_tokens |-> 1, output_tokens |-> 0]

\* what one llm_query of the executed code costs
SubUsage == [model |-> SONNET, input_tokens |-> 1, output_tokens |-> 1]

FinalArgs == {"x", "y"}

\* What executing one piece of model-written code can do: make sub_calls
\* llm_query calls; call FINAL(arg) so that _FinalSignal reaches the loop
\* ("raised"), call it inside a try whose "except Exception" handler of the
\* code itself catches the signal ("caught"), or not call it; and otherwise
\* return, raise an Exception, or raise a BaseException that is no
\* Exception (SystemExit, KeyboardInterrupt).
CodeBehaviours ==
    { [sub_calls |-> n, final |-> f, arg |-> a, ends |-> e] :
        n \in 0..1, f \in {"none", "raised", "caught"}, a \in FinalArgs,
        e \in {"returns", "Exception", "BaseException"} }

RECURSIVE RecordTimes(_, _, _)
RecordTimes(tr, n, u) ==
    IF n = 0 THEN tr
    ELSE RecordTimes(record(tr, u.model, u.input_tokens, u.output_tokens), n - 1, u)

\* the for statement when the range is exhausted: the code after the loop
ReplExhausted ==
    /\ repl.pc = "head"
    /\ repl.iteration >= root_max_iterations
    /\ repl' = EngineResult(repl, "max_iterations", "none")
    /\ UNCHANGED <<root_max_iterations, partVars, trackVars, pipeVars, schemaVars, beadsVars, batchVars, orchVars>>

\* mutant: the guardrail is not looked at
ReplChecksNothing ==
    /\ repl.pc = "head"
    /\ repl.iteration < root_max_iterations
    /\ repl' = [repl EXCEPT !.pc = "call", !.iterations = repl.iteration + 1,
                            !.guard = "ok"]
    /\ UNCHANGED <<root_max_iterations, partVars, trackVars, pipeVars, schemaVars, beadsVars, batchVars, orchVars>>

\* the top of an iteration: iterations = iteration + 1 and the guardrail
\* check
ReplChecks ==
    /\ repl.pc = "head"
    /\ repl.iteration < root_max_iterations
    /\ LET status == check_guardrails(cfg, tracker)
           r == [repl EXCEPT !.iterations = repl.iteration + 1, !.guard = status]
       IN repl' = IF status = "exceeded" THEN EngineResult(r, "budget_exceeded", "none")
                  ELSE [r EXCEPT !.pc = "call"]
    /\ UNCHANGED <<root_max_iterations, partVars, trackVars, pipeVars, schemaVars, beadsVars, batchVars, orchVars>>

\* _call_root_lm: the call raises, or it answers and its usage is recorded
ReplCallsRoot ==
    /\ repl.pc = "call"
    /\ \E raises \in BOOLEAN :
          IF raises
          THEN /\ repl' = EngineResult([repl EXCEPT !.root_calls = @ + 1], "error", "none")
               /\ UNCHANGED tracker
          ELSE /\ repl' = [repl EXCEPT !.pc = "exec", !.root_calls = @ + 1]
               /\ tracker' = RecordTimes(tracker, 1, RootUsage)
    /\ UNCHANGED <<root_max_iterations, cfg, rec, checked, partVars, pipeVars, schemaVars,
                   beadsVars, batchVars, orchVars>>

\* _execute_code and the three except clauses around it
ReplExecutes ==
    /\ repl.pc = "exec"
    /\ \E b \in CodeBehaviours :
          /\ tracker' = RecordTimes(tracker, b.sub_calls, SubUsage)
          /\ LET r == [repl EXCEPT !.final = b.final, !.final_arg = b.arg, !.ended = b.ends,
                                   !.final_calls = IF b.final = "none" THEN @ ELSE @ + 1]
             IN repl' = IF b.final = "raised" THEN EngineResult(r, "completed", b.arg)
                        ELSE IF b.ends = "BaseException" THEN [r EXCEPT !.pc = "raised"]
                        ELSE [r EXCEPT !.pc = "head", !.iteration = @ + 1]
    /\ UNCHANGED <<root_max_iterations, cfg, rec, checked, partVars, pipeVars, schemaVars,
                   beadsVars, batchVars, orchVars>>

ReplUnused ==
    /\ root_max_iterations = 0
    /\ repl = NoRepl

\* ------------------------------- runner.py model: _call_sub_lm_batched
\* batch.pc is the position of the calling thread: "idle" (not yet called),
\* "collect" (in the as_completed loop), "cancel" (in the loop over f.cancel()),
\* "join" (leaving the with block after the break), "unwind" (leaving it with
\* the exception future.result() raised), "returned" or "raised".

\* a prompt's response: the text the call _call_one(idx, prompt) got back
Reply(idx, prompt) == [prompt |-> prompt, call |-> idx]

\* a slot of results still None
NoneYet == [prompt |-> "None", call |-> 0]

\* the empty string
EmptyReply == [prompt |-> "", call |-> 0]

QueuedCall == [state |-> "PENDING", exc |-> FALSE, text |-> NoneYet]

NoBatch ==
    [pc |-> "unused", prompts |-> << >>, max_workers |-> 0, fut |-> << >>,
     order |-> << >>, cancel_k |-> 0, results |-> << >>, tripped |-> FALSE,
     returned |-> << >>]

BatchStart(prompts, workers) ==
    [NoBatch EXCEPT !.pc = "idle", !.prompts = prompts, !.max_workers = workers]

BatchRunning == { i \in 1..Len(batch.fut) : batch.fut[i].state = "RUNNING" }

BatchPoolSize ==
    IF batch.max_workers < Len(batch.prompts) THEN batch.max_workers ELSE Len(batch.prompts)

\* [r if r is not None else "" for r in results]
FillNone(results) ==
    [ i \in 1..Len(results) |-> IF results[i] = NoneYet THEN EmptyReply ELSE results[i] ]

\* the call up to the submission of every prompt to the pool
BatchBegins ==
    /\ batch.pc = "idle"
    /\ batch' = IF batch.prompts = << >>
                THEN [batch EXCEPT !.pc = "returned", !.returned = << >>]
                ELSE [batch EXCEPT !.pc = "collect",
                                   !.results = [ i \in 1..Len(batch.prompts) |-> NoneYet ],
                                   !.fut = [ i \in 1..Len(batch.prompts) |-> QueuedCall ]]
    /\ UNCHANGED <<partVars, trackVars, pipeVars, schemaVars, beadsVars, replVars, orchVars>>

\* a pool worker takes the next queued call
BatchCallStarts(i) ==
    /\ batch.pc \in {"collect", "cancel", "join", "unwind"}
    /\ batch.fut[i].state = "PENDING"
    /\ \A j \in 1..(i - 1) : batch.fut[j].state # "PENDING"
    /\ Cardinality(BatchRunning) < BatchPoolSize
    /\ batch' = [batch EXCEPT !.fut[i].state = "RUNNING"]
    /\ UNCHANGED <<partVars, trackVars, pipeVars, schemaVars, beadsVars, replVars, orchVars>>

\* _call_one(idx, prompt) ends: _call_sub_lm raises, or it records the usage
\* and the task returns (idx, text)
BatchCallEnds(i) ==
    /\ i \in BatchRunning
    /\ \E raises \in BOOLEAN :
          IF raises
          THEN /\ batch' = [batch EXCEPT !.fut[i].state = "FINISHED", !.fut[i].exc = TRUE]
               /\ UNCHANGED tracker
          ELSE /\ batch' = [batch EXCEPT !.fut[i].state = "FINISHED",
                                         !.fut[i].text = Reply(i, batch.prompts[i])]
               /\ tracker' = RecordTimes(tracker, 1, SubUsage)
    /\ UNCHANGED <<cfg, rec, checked, partVars, pipeVars, schemaVars, beadsVars, replVars,
                   orchVars>>

BatchUnyielded(i) ==
    /\ batch.pc = "collect"
    /\ batch.fut[i].state = "FINISHED"
    /\ i \notin Range(batch.order)

\* mutant: the texts are stored in the order the calls complete
BatchCollectsInArrivalOrder(i) ==
    /\ BatchUnyielded(i)
    /\ LET b == [batch EXCEPT !.order = Append(@, i)]
       IN batch' =
            IF check_guardrails(cfg, tracker) = "exceeded"
            THEN [b EXCEPT !.pc = "cancel", !.cancel_k = 1, !.tripped = TRUE]
            ELSE IF batch.fut[i].exc THEN [b EXCEPT !.pc = "unwind"]
            ELSE [b EXCEPT !.results[Len(b.order)] = batch.fut[i].text]
    /\ UNCHANGED <<partVars, trackVars, pipeVars, schemaVars, beadsVars, replVars, orchVars>>

\* one pass of the as_completed loop body
BatchCollects(i) ==
    /\ BatchUnyielded(i)
    /\ LET b == [batch EXCEPT !.order = Append(@, i)]
       IN batch' =
            IF check_guardrails(cfg, tracker) = "exceeded"
            THEN [b EXCEPT !.pc = "cancel", !.cancel_k = 1, !.tripped = TRUE]
            ELSE IF batch.fut[i].exc THEN [b EXCEPT !.pc = "unwind"]
            ELSE [b EXCEPT !.results[i] = batch.fut[i].text]
    /\ UNCHANGED <<partVars, trackVars, pipeVars, schemaVars, beadsVars, replVars, orchVars>>

\* for f in futures: f.cancel() -- one future per step, then break
BatchCancelsNext ==
    /\ batch.pc = "cancel"
    /\ batch' =
         IF batch.cancel_k > Len(batch.fut) THEN [batch EXCEPT !.pc = "join"]
         ELSE IF batch.fut[batch.cancel_k].state = "PENDING"
         THEN [batch EXCEPT !.fut[batch.cancel_k].state = "CANCELLED", !.cancel_k = @ + 1]
         ELSE [batch EXCEPT !.cancel_k = @ + 1]
    /\ UNCHANGED <<partVars, trackVars, pipeVars, schemaVars, beadsVars, replVars, orchVars>>

\* the with block is left once no call is queued or running: after the loop
\* or the break the list is returned, after an exception it propagates
BatchLeavesPool ==
    /\ \/ batch.pc \in {"join", "unwind"}
       \/ batch.pc = "collect" /\ Len(batch.order) = Len(batch.fut)
    /\ \A i \in 1..Len(batch.fut) : batch.fut[i].state \in {"FINISHED", "CANCELLED"}
    /\ batch' = IF batch.pc = "unwind" THEN [batch EXCEPT !.pc = "raised"]
                ELSE [batch EXCEPT !.pc = "returned", !.returned = FillNone(batch.results)]
    /\ UNCHANGED <<partVars, trackVars, pipeVars, schemaVars, beadsVars, replVars, orchVars>>

BatchUnused == batch = NoBatch

\* --------------------------------- orchestrator.py model: CodebaseAnalyzer
\* orch.pc is the position of run(): "idle", "load" (the staleness check is
\* done and the run is not skipped), "engine" (the context is loaded),
\* "returned" or "raised".  output_dir tells whether the output directory
\* exists, stored is the metadata file, head what git rev-parse HEAD gives,
\* changed whether the files changed since the stored commit map to any
\* namespace.

\* a commit SHA that is None
NoSha == "None"

Shas == { "a", "b" }

\* the metadata file: absent, unreadable, or a JSON object
NoMetadata == [kind |-> "missing", commit_sha |-> NoSha]
CorruptMetadata == [kind |-> "corrupt", commit_sha |-> NoSha]
Metadata(sha) == [kind |-> "json", commit_sha |-> sha]

StalenessResult(status, last_sha, current_sha) ==
    [status |-> status, last_sha |-> last_sha, current_sha |-> current_sha]

NoStaleness == StalenessResult("none", NoSha, NoSha)

check_staleness(o) ==
    IF ~o.output_dir THEN StalenessResult("no_beads", NoSha, o.head)
    ELSE IF o.stored.kind # "json" THEN StalenessResult("no_prior_analysis", NoSha, o.head)
    ELSE IF o.stored.commit_sha = NoSha
         THEN StalenessResult("no_prior_analysis", NoSha, o.head)
    ELSE IF o.stored.commit_sha = o.head
         THEN StalenessResult("fresh", o.stored.commit_sha, o.head)
    ELSE StalenessResult(IF o.changed THEN "stale" ELSE "fresh", o.stored.commit_sha, o.head)

NoOrch ==
    [pc |-> "unused", force |-> FALSE, output_dir |-> FALSE, stored |-> NoMetadata,
     head |-> NoSha, changed |-> FALSE, staleness |-> NoStaleness, engine_runs |-> 0,
     stores |-> 0, status |-> "none", commit_sha |-> NoSha]

AnalysisResult(o, status, commit_sha) ==
    [o EXCEPT !.pc = "returned", !.status = status, !.commit_sha = commit_sha]

\* how load_codebase_context ends
LoadOutcomes == { "loaded", "FileNotFoundError", "ValueError", "OSError" }

\* how EngineRunner.run ends: with an EngineResult of this status, or raising
EngineOutcomes == { "completed", "error", "budget_exceeded", "max_iterations", "raises" }

\* store_analysis_metadata(commit_sha)
store_analysis_metadata(o, sha) ==
    [o EXCEPT !.output_dir = TRUE, !.stored = Metadata(sha), !.stores = @ + 1]

\* run() up to the skip of a fresh analysis
OrchChecksStaleness ==
    /\ orch.pc = "idle"
    /\ LET staleness == check_staleness(orch)
           o == [orch EXCEPT !.staleness = staleness]
       IN orch' = IF ~orch.force /\ staleness.status = "fresh"
                  THEN AnalysisResult(o, "skipped_fresh", staleness.current_sha)
                  ELSE [o EXCEPT !.pc = "load"]
    /\ UNCHANGED <<partVars, trackVars, pipeVars, schemaVars, beadsVars, replVars, batchVars>>

\* load_codebase_context and the except clause around it
OrchLoadsContext ==
    /\ orch.pc = "load"
    /\ \E outcome \in LoadOutcomes :
          orch' = IF outcome = "loaded" THEN [orch EXCEPT !.pc = "engine"]
                  ELSE IF outcome \in {"FileNotFoundError", "ValueError"}
                  THEN AnalysisResult(orch, "error", NoSha)
                  ELSE [orch EXCEPT !.pc = "raised"]
    /\ UNCHANGED <<partVars, trackVars, pipeVars, schemaVars, beadsVars, replVars, batchVars>>

\* mutant: the metadata is stored whatever the engine's status
OrchRunsEngineAlwaysStores ==
    /\ orch.pc = "engine"
    /\ \E outcome \in EngineOutcomes :
          LET o == [orch EXCEPT !.engine_runs = @ + 1]
              commit_sha == orch.staleness.current_sha
          IN orch' = IF outcome = "raises" THEN [o EXCEPT !.pc = "raised"]
                     ELSE IF commit_sha # NoSha
                     THEN AnalysisResult(store_analysis_metadata(o, commit_sha),
                                         outcome, commit_sha)
                     ELSE AnalysisResult(o, outcome, commit_sha)
    /\ UNCHANGED <<partVars, trackVars, pipeVars, schemaVars, beadsVars, replVars, batchVars>>

\* runner.run(...), the metadata store on success, and the return
OrchRunsEngine ==
    /\ orch.pc = "engine"
    /\ \E outcome \in EngineOutcomes :
          LET o == [orch EXCEPT !.engine_runs = @ + 1]
              commit_sha == orch.staleness.current_sha
          IN orch' = IF outcome = "raises" THEN [o EXCEPT !.pc = "raised"]
                     ELSE IF outcome = "completed" /\ commit_sha # NoSha
                     THEN AnalysisResult(store_analysis_metadata(o, commit_sha),
                                         outcome, commit_sha)
                     ELSE AnalysisResult(o, outcome, commit_sha)
    /\ UNCHANGED <<partVars, trackVars, pipeVars, schemaVars, beadsVars, replVars, batchVars>>

OrchUnused == orch = NoOrch
\* ------------------------------------------------------- pipeline.py model

MAX_SOURCE_CHARS_PER_GROUP == 500000

CeilDiv(a, b) == (a + b - 1) \div b

\* len(source_by_namespace.get(name, ""))
SourceLen(lens, n) == IF n \in DOMAIN lens THEN lens[n] ELSE 0

RECURSIVE TotalChars(_, _)
TotalChars(lens, namespaces) ==
    IF namespaces = << >> THEN 0
    ELSE SourceLen(lens, Head(namespaces)) + TotalChars(lens, Tail(namespaces))

\* the sub-group built from one chunk of an oversized group
SubGroup(group, chunk, part) ==
    LET chunk_names == Range(chunk)
        deps_in_chunk(n) == FilterIn(GetList(group.internal_deps, n), chunk_names)
        internal_deps == [ n \in { m \in chunk_names : deps_in_chunk(m) # << >> } |->
                             deps_in_chunk(n) ]
        required_by == RequiredBy(internal_deps)
    IN [ name |-> [seg |-> group.name.seg, part |-> part],
         namespaces |-> chunk,
         entry_points |-> SortedSet({ n \in chunk_names : n \notin required_by }),
         exit_points |-> SortedSet({ n \in chunk_names : n \notin DOMAIN internal_deps }),
         internal_deps |-> internal_deps ]

\* mutant: every chunk after the first starts one namespace early
SplitGroupOverlapping(group, lens) ==
    LET total_chars == TotalChars(lens, group.namespaces)
    IN IF total_chars <= MAX_SOURCE_CHARS_PER_GROUP THEN <<group>>
       ELSE LET num_splits == CeilDiv(total_chars, MAX_SOURCE_CHARS_PER_GROUP)
                chunk_size == CeilDiv(Len(group.namespaces), num_splits)
                sorted_ns == sorted(group.namespaces)
                last(p) == IF p * chunk_size < Len(sorted_ns) THEN p * chunk_size
                           ELSE Len(sorted_ns)
                first(p) == IF p = 1 THEN 1 ELSE (p - 1) * chunk_size
            IN [ p \in 1..CeilDiv(Len(sorted_ns), chunk_size) |->
                    SubGroup(group, SubSeq(sorted_ns, first(p), last(p)), p) ]

\* what _split_oversized_groups appends to result for one group
SplitGroup(group, lens) ==
    LET total_chars == TotalChars(lens, group.namespaces)
    IN IF total_chars <= MAX_SOURCE_CHARS_PER_GROUP THEN <<group>>
       ELSE LET num_splits == CeilDiv(total_chars, MAX_SOURCE_CHARS_PER_GROUP)
                chunk_size == CeilDiv(Len(group.namespaces), num_splits)
                sorted_ns == sorted(group.namespaces)
                last(p) == IF p * chunk_size < Len(sorted_ns) THEN p * chunk_size
                           ELSE Len(sorted_ns)
            IN [ p \in 1..CeilDiv(Len(sorted_ns), chunk_size) |->
                    SubGroup(group, SubSeq(sorted_ns, (p - 1) * chunk_size + 1, last(p)), p) ]

RECURSIVE split_oversized_groups(_, _)
split_oversized_groups(gs, lens) ==
    IF gs = << >> THEN << >>
    ELSE SplitGroup(Head(gs), lens) \o split_oversized_groups(Tail(gs), lens)

\* ---- PipelineRunner.run

NoResult == [status |-> "none"]

PipelineResult(status, an, errs, c, tr, total) ==
    [status |-> status, analyses |-> an, validation_errors |-> errs,
     cost_summary |-> summary(c, tr), groups_total |-> total, groups_succeeded |-> Len(an)]

PendingFuture == [state |-> "PENDING", exc |-> FALSE, raw |-> EmptyText]

\* no call made yet; retry_raw is the text the retry call returned
NoCalls == [fanout |-> 0, retry |-> 0, retry_raw |-> EmptyText]

\* the texts the external model is taken to answer with
ModelPayloads == { NonObject("empty"), NonObject("garbage"), ValidDoc, NullNamespacesDoc }

\* the token usage every response reports: (input tokens, output tokens)
ResponseUsage == <<1, 1>>

\* the ways a model call can end: it raises, or it returns a text
CallOutcomes ==
    { [raises |-> TRUE, payload |-> NonObject("empty")] }
    \cup { [raises |-> FALSE, payload |-> p] : p \in ModelPayloads }

\* a response text as the model writes it: an object comes in a fence after
\* some prose, anything else bare
ResponseText(payload, group, retry) ==
    Text(payload.kind = "object", payload.kind = "object", payload,
         [group |-> group, retry |-> retry])

NumDispatch == Len(dispatch)

PoolSize == IF max_workers < NumDispatch THEN max_workers ELSE NumDispatch

Running == { i \in 1..NumDispatch : fut[i].state = "RUNNING" }

\* record() as a pool task runs it.  rec[i].pc: 0 = not in record(); 1 = the
\* fields have been read (rec[i].seen); 10 = record() has returned.
NotRecording == [pc |-> 0, seen |-> NewTracker]

\* the usage of a response as record() receives it
ResponseArgs ==
    [model |-> SONNET, input_tokens |-> ResponseUsage[1], output_tokens |-> ResponseUsage[2]]

\* mutant: the empty-input return first records one model call
RunBeginCallsOnEmpty ==
    /\ pl_pc = "idle"
    /\ IF groups = << >>
       THEN /\ tracker' = record(tracker, SONNET, 1, 1)
            /\ result' = PipelineResult("completed", << >>, << >>, cfg, tracker', 0)
            /\ pl_pc' = "returned"
            /\ UNCHANGED <<dispatch, fut, rec, model_calls>>
       ELSE LET dg == split_oversized_groups(groups, source_len)
            IN /\ dispatch' = dg
               /\ fut' = [ i \in 1..Len(dg) |-> PendingFuture ]
               /\ rec' = [ i \in 1..Len(dg) |-> NotRecording ]
               /\ model_calls' = [ i \in 1..Len(dg) |-> NoCalls ]
               /\ pl_pc' = "fanout"
               /\ UNCHANGED <<result, tracker>>
    /\ UNCHANGED <<partVars, schemaVars, beadsVars, replVars, batchVars, orchVars, cfg, checked, runInputs, yielded, cancel_k, results_by_group,
                   analyses, validation_errors, val_k>>

\* run() up to the submission of every group to the pool
RunBegin ==
    /\ pl_pc = "idle"
    /\ IF groups = << >>
       THEN /\ result' = PipelineResult("completed", << >>, << >>, cfg, tracker, 0)
            /\ pl_pc' = "returned"
            /\ UNCHANGED <<dispatch, fut, rec, model_calls>>
       ELSE LET dg == split_oversized_groups(groups, source_len)
            IN /\ dispatch' = dg
               /\ fut' = [ i \in 1..Len(dg) |-> PendingFuture ]
               /\ rec' = [ i \in 1..Len(dg) |-> NotRecording ]
               /\ model_calls' = [ i \in 1..Len(dg) |-> NoCalls ]
               /\ pl_pc' = "fanout"
               /\ UNCHANGED result
    /\ UNCHANGED <<partVars, schemaVars, beadsVars, replVars, batchVars, orchVars, cfg, tracker, checked, runInputs, yielded, cancel_k, results_by_group,
                   analyses, validation_errors, val_k>>

\* mutant: a queued group starts whether or not a worker is free
TaskStartsUnbounded(i) ==
    /\ pl_pc \in {"fanout", "cancel", "join"}
    /\ fut[i].state = "PENDING"
    /\ \A j \in 1..(i - 1) : fut[j].state # "PENDING"
    /\ fut' = [fut EXCEPT ![i].state = "RUNNING"]
    /\ model_calls' = [model_calls EXCEPT ![i].fanout = @ + 1]
    /\ UNCHANGED <<partVars, schemaVars, beadsVars, replVars, batchVars, orchVars, trackVars, runInputs, pl_pc, dispatch, yielded, cancel_k,
                   results_by_group, analyses, validation_errors, val_k, result>>

\* a pool worker takes the next queued group and calls the model for it
TaskStarts(i) ==
    /\ pl_pc \in {"fanout", "cancel", "join"}
    /\ fut[i].state = "PENDING"
    /\ \A j \in 1..(i - 1) : fut[j].state # "PENDING"
    /\ Cardinality(Running) < PoolSize
    /\ fut' = [fut EXCEPT ![i].state = "RUNNING"]
    /\ model_calls' = [model_calls EXCEPT ![i].fanout = @ + 1]
    /\ UNCHANGED <<partVars, schemaVars, beadsVars, replVars, batchVars, orchVars, trackVars, runInputs, pl_pc, dispatch, yielded, cancel_k,
                   results_by_group, analyses, validation_errors, val_k, result>>

\* the model call of a running task raises: the future ends with the exception
TaskRaises(i) ==
    /\ i \in Running
    /\ rec[i].pc = 0
    /\ \E o \in oracle[i] : o.raises
    /\ fut' = [fut EXCEPT ![i].state = "FINISHED", ![i].exc = TRUE]
    /\ UNCHANGED <<partVars, schemaVars, beadsVars, replVars, batchVars, orchVars, trackVars, runInputs, pl_pc, dispatch, yielded, cancel_k,
                   results_by_group, analyses, validation_errors, val_k, result, model_calls>>

\* the model call of a running task returns: _call_sub_lm_for_group enters
\* record() and reads the tracker.  Nothing reads the response text before
\* the task returns it, so the text is drawn when the task finishes.
TaskGetsResponse(i) ==
    /\ i \in Running
    /\ rec[i].pc = 0
    /\ \E o \in oracle[i] : ~o.raises
    /\ rec' = [rec EXCEPT ![i] = [pc |-> 1, seen |-> tracker]]
    /\ UNCHANGED <<partVars, schemaVars, beadsVars, replVars, batchVars, orchVars, cfg, tracker, checked, pipeVars>>

\* the task writes the fields, each from the value it read on entering
\* record(); the reads of one call are taken together, and so are its writes
TaskStores(i) ==
    /\ i \in Running
    /\ rec[i].pc = 1
    /\ tracker' = RecordOver(tracker, rec[i].seen, 1, ResponseArgs)
    /\ rec' = [rec EXCEPT ![i] = [pc |-> 10, seen |-> NewTracker]]
    /\ UNCHANGED <<partVars, schemaVars, beadsVars, replVars, batchVars, orchVars, cfg, checked, pipeVars>>

\* record() has returned: the task returns (group.name, raw), the future is done
TaskFinishes(i) ==
    /\ i \in Running
    /\ rec[i].pc = 10
    /\ \E o \in oracle[i] :
          /\ ~o.raises
          /\ fut' = [fut EXCEPT ![i].state = "FINISHED",
                                ![i].raw = ResponseText(o.payload, i, FALSE)]
    /\ UNCHANGED <<partVars, schemaVars, beadsVars, replVars, batchVars, orchVars, trackVars, runInputs, pl_pc, dispatch, yielded, cancel_k,
                   results_by_group, analyses, validation_errors, val_k, result, model_calls>>

ExcText == "model call failed"

Message(text) == [text |-> text, index |-> 0, fields |-> {}]

\* an entry of validation_errors: (group name, message); group is the dispatch
\* group whose loop iteration appended it
ErrorEntry(name, msg, group) == [name |-> name, msg |-> msg, group |-> group]

\* an entry of analyses: the validated dict; group is the dispatch group whose
\* loop iteration appended it, origin the call that produced the text
AnalysisEntry(data, group, origin) == [data |-> data, group |-> group, origin |-> origin]

\* mutant: the lookup never finds the stored response
GetRawDefault(results, name) == EmptyText

\* results_by_group.get(name, "")
GetRaw(results, name) == IF name \in DOMAIN results THEN results[name] ELSE EmptyText

\* results_by_group[name] = raw
PutRaw(results, name, raw) ==
    [ k \in DOMAIN results \cup {name} |-> IF k = name THEN raw ELSE results[k] ]

Unyielded(i) == pl_pc = "fanout" /\ fut[i].state = "FINISHED" /\ i \notin yielded

\* one pass of the as_completed loop body with the guardrail not exceeded
Harvest(i) ==
    /\ Unyielded(i)
    /\ check_guardrails(cfg, tracker) # "exceeded"
    /\ IF fut[i].exc
       THEN /\ validation_errors' =
                  Append(validation_errors,
                         ErrorEntry(dispatch[i].name, Message("API error: " \o ExcText), i))
            /\ UNCHANGED results_by_group
       ELSE /\ results_by_group' = PutRaw(results_by_group, dispatch[i].name, fut[i].raw)
            /\ UNCHANGED validation_errors
    /\ yielded' = yielded \cup {i}
    /\ UNCHANGED <<partVars, schemaVars, beadsVars, replVars, batchVars, orchVars, trackVars, runInputs, pl_pc, dispatch, fut, cancel_k,
                   analyses, val_k, result, model_calls>>

\* the as_completed loop body finds the guardrail exceeded
GuardrailTrips(i) ==
    /\ Unyielded(i)
    /\ check_guardrails(cfg, tracker) = "exceeded"
    /\ yielded' = yielded \cup {i}
    /\ pl_pc' = "cancel"
    /\ cancel_k' = 1
    /\ UNCHANGED <<partVars, schemaVars, beadsVars, replVars, batchVars, orchVars, trackVars, runInputs, dispatch, fut,
                   results_by_group, analyses, validation_errors, val_k, result, model_calls>>

\* for f in futures: f.cancel() -- one future per step; only a pending one is cancelled
CancelNext ==
    /\ pl_pc = "cancel"
    /\ cancel_k <= NumDispatch
    /\ fut' = IF fut[cancel_k].state = "PENDING"
              THEN [fut EXCEPT ![cancel_k].state = "CANCELLED"] ELSE fut
    /\ cancel_k' = cancel_k + 1
    /\ UNCHANGED <<partVars, schemaVars, beadsVars, replVars, batchVars, orchVars, trackVars, runInputs, pl_pc, dispatch, yielded,
                   results_by_group, analyses, validation_errors, val_k, result, model_calls>>

\* return PipelineResult(status="budget_exceeded", ...): the result is built,
\* then the with-block's exit waits for the pool
BudgetReturn ==
    /\ pl_pc = "cancel"
    /\ cancel_k > NumDispatch
    /\ result' = PipelineResult("budget_exceeded", analyses, validation_errors,
                                cfg, tracker, NumDispatch)
    /\ pl_pc' = "join"
    /\ UNCHANGED <<partVars, schemaVars, beadsVars, replVars, batchVars, orchVars, trackVars, runInputs, dispatch, fut, yielded, cancel_k,
                   results_by_group, analyses, validation_errors, val_k, model_calls>>

\* the pool's shutdown(wait=True) ends once no task is running; run() returns
PoolJoined ==
    /\ pl_pc = "join"
    /\ \A i \in 1..NumDispatch : fut[i].state \in {"FINISHED", "CANCELLED"}
    /\ pl_pc' = "returned"
    /\ UNCHANGED <<partVars, schemaVars, beadsVars, replVars, batchVars, orchVars, trackVars, runInputs, dispatch, fut, yielded, cancel_k,
                   results_by_group, analyses, validation_errors, val_k, result, model_calls>>

\* mutant: the validation loop starts after the first yielded future
FanoutDoneEarly ==
    /\ pl_pc = "fanout"
    /\ yielded # {}
    /\ pl_pc' = "validate"
    /\ val_k' = 1
    /\ UNCHANGED <<partVars, schemaVars, beadsVars, replVars, batchVars, orchVars, trackVars, runInputs, dispatch, fut, yielded, cancel_k,
                   results_by_group, analyses, validation_errors, result, model_calls>>

\* as_completed is exhausted: the validation loop starts
FanoutDone ==
    /\ pl_pc = "fanout"
    /\ yielded = 1..NumDispatch
    /\ pl_pc' = "validate"
    /\ val_k' = 1
    /\ UNCHANGED <<partVars, schemaVars, beadsVars, replVars, batchVars, orchVars, trackVars, runInputs, dispatch, fut, yielded, cancel_k,
                   results_by_group, analyses, validation_errors, result, model_calls>>

\* mutant: a retry whose response is valid leaves no analysis
RetryEndsDropsAnalysis(k, o) ==
    LET retry_raw == ResponseText(o.payload, k, TRUE)
        second == validate_flow_analysis(retry_raw)
        name == dispatch[k].name
    IN /\ model_calls' = [model_calls EXCEPT ![k].retry = @ + 1,
                                             ![k].retry_raw = IF o.raises THEN @ ELSE retry_raw]
       /\ IF o.raises
          THEN /\ validation_errors' =
                     Append(validation_errors, ErrorEntry(name, Message(ExcText), k))
               /\ UNCHANGED <<analyses, tracker>>
          ELSE /\ tracker' = record(tracker, SONNET, ResponseUsage[1], ResponseUsage[2])
               /\ IF second.status = "ok"
                  THEN UNCHANGED <<analyses, validation_errors>>
                  ELSE /\ validation_errors' =
                             Append(validation_errors, ErrorEntry(name, second.msg, k))
                       /\ UNCHANGED analyses

\* the retry of group k ends as outcome o: the entry it leaves and the tracker
RetryEnds(k, o) ==
    LET retry_raw == ResponseText(o.payload, k, TRUE)
        second == validate_flow_analysis(retry_raw)
        name == dispatch[k].name
    IN /\ model_calls' = [model_calls EXCEPT ![k].retry = @ + 1,
                                             ![k].retry_raw = IF o.raises THEN @ ELSE retry_raw]
       /\ IF o.raises
          THEN /\ validation_errors' =
                     Append(validation_errors, ErrorEntry(name, Message(ExcText), k))
               /\ UNCHANGED <<analyses, tracker>>
          ELSE /\ tracker' = record(tracker, SONNET, ResponseUsage[1], ResponseUsage[2])
               /\ IF second.status = "ok"
                  THEN /\ analyses' = Append(analyses,
                                             AnalysisEntry(second.data, k, retry_raw.origin))
                       /\ UNCHANGED validation_errors
                  ELSE /\ validation_errors' =
                             Append(validation_errors, ErrorEntry(name, second.msg, k))
                       /\ UNCHANGED analyses

\* one pass of the validation loop body, the retry included
ValidateGroup ==
    /\ pl_pc = "validate"
    /\ val_k <= NumDispatch
    /\ LET raw == GetRaw(results_by_group, dispatch[val_k].name)
           first == validate_flow_analysis(raw)
       IN IF IsEmptyText(raw)
          THEN /\ val_k' = val_k + 1
               /\ UNCHANGED <<pl_pc, analyses, validation_errors, tracker, model_calls>>
          ELSE IF first.status = "ok"
          THEN /\ analyses' = Append(analyses, AnalysisEntry(first.data, val_k, raw.origin))
               /\ val_k' = val_k + 1
               /\ UNCHANGED <<pl_pc, validation_errors, tracker, model_calls>>
          ELSE IF first.status = "ValidationError"
          THEN /\ \E o \in oracle[val_k] : RetryEnds(val_k, o)
               /\ val_k' = val_k + 1
               /\ UNCHANGED pl_pc
          ELSE /\ pl_pc' = "raised"
               /\ UNCHANGED <<val_k, analyses, validation_errors, tracker, model_calls>>
    /\ UNCHANGED <<partVars, schemaVars, beadsVars, replVars, batchVars, orchVars, cfg, rec, checked, runInputs, dispatch, fut, yielded, cancel_k,
                   results_by_group, result>>

\* mutant: the final status ignores the recorded validation errors
RunReturnsAlwaysCompleted ==
    /\ pl_pc = "validate"
    /\ val_k > NumDispatch
    /\ result' = PipelineResult("completed", analyses, validation_errors, cfg, tracker,
                                NumDispatch)
    /\ pl_pc' = "returned"
    /\ UNCHANGED <<partVars, schemaVars, beadsVars, replVars, batchVars, orchVars, trackVars, runInputs, dispatch, fut, yielded, cancel_k,
                   results_by_group, analyses, validation_errors, val_k, model_calls>>

\* the validation loop is over: run() returns its result
RunReturns ==
    /\ pl_pc = "validate"
    /\ val_k > NumDispatch
    /\ result' = PipelineResult(IF validation_errors = << >> THEN "completed"
                                ELSE "completed_with_errors",
                                analyses, validation_errors, cfg, tracker, NumDispatch)
    /\ pl_pc' = "returned"
    /\ UNCHANGED <<partVars, schemaVars, beadsVars, replVars, batchVars, orchVars, trackVars, runInputs, dispatch, fut, yielded, cancel_k,
                   results_by_group, analyses, validation_errors, val_k, model_calls>>

\* ---------------------------------------------------------- specifications

PartitionUnused ==
    /\ structure = [namespaces |-> << >>, dependency_map |-> << >>]
    /\ p_pc = "done"
    /\ all_names = << >>
    /\ parent = << >>
    /\ edge_k = 0
    /\ groups = << >>

TrackerUnused ==
    /\ cfg = DefaultGuardrails
    /\ tracker = NewTracker
    /\ rec = << >>
    /\ checked = NoCheck

PipelineUnused ==
    /\ source_len = << >>
    /\ max_workers = 1
    /\ oracle = << >>
    /\ pl_pc = "unused"
    /\ dispatch = << >>
    /\ fut = << >>
    /\ yielded = {}
    /\ cancel_k = 0
    /\ results_by_group = << >>
    /\ analyses = << >>
    /\ validation_errors = << >>
    /\ val_k = 0
    /\ result = NoResult
    /\ model_calls = << >>

SchemaUnused ==
    /\ raw_text = EmptyText
    /\ validated = NotValidated

\* ---- the partitioner on every small structure

InitPartition ==
    /\ structure \in Structures
    /\ p_pc = "idle"
    /\ all_names = << >>
    /\ parent = << >>
    /\ edge_k = 0
    /\ groups = << >>
    /\ TrackerUnused
    /\ PipelineUnused
    /\ SchemaUnused
    /\ BeadsUnused
    /\ ReplUnused
    /\ BatchUnused
    /\ OrchUnused

NextPartition == PartitionBegin \/ UnionStep \/ PartitionFinish

SpecPartition == InitPartition /\ [][NextPartition]_vars

\* ---- several threads record on one tracker

InitRecord ==
    /\ cfg = DefaultGuardrails
    /\ tracker = NewTracker
    /\ rec = [t \in 1..NumThreads |-> NoRecord]
    /\ checked = NoCheck
    /\ PartitionUnused
    /\ PipelineUnused
    /\ SchemaUnused
    /\ BeadsUnused
    /\ ReplUnused
    /\ BatchUnused
    /\ OrchUnused

NextRecord ==
    \E t \in 1..NumThreads : ThreadCallsRecord(t) \/ ThreadLoads(t) \/ ThreadStores(t)

SpecRecord == InitRecord /\ [][NextRecord]_vars

\* ---- a pipeline run

\* the partitioner's variables once it has returned the groups of st
PartitionReturned(st) ==
    /\ structure = st
    /\ p_pc = "done"
    /\ groups = partition_flow_groups(st)
    /\ all_names = IF st.namespaces = << >> THEN << >> ELSE SortedSet(KnownNames(st))
    /\ edge_k = IF st.namespaces = << >> THEN 0
                ELSE Len(EdgeList(st, SortedSet(KnownNames(st)))) + 1
    /\ parent = IF st.namespaces = << >> THEN << >>
                ELSE LET names == SortedSet(KnownNames(st))
                     IN FindAll(UnionAll([ n \in KnownNames(st) |-> n ],
                                         EdgeList(st, names), KnownNames(st)), names).parent

\* the structures analysed by the runs: no namespace at all, or name 1 and
\* any others, without edges or with the one edge from name 2 to name 1
RunStructures ==
    { [ namespaces |-> SortedSet(K),
        dependency_map |-> [ n \in K |-> IF chain /\ n = 2 THEN <<1>> ELSE << >> ] ] :
      <<K, chain>> \in { q \in (SUBSET Names) \X BOOLEAN :
                           /\ q[1] # {} => 1 \in q[1]
                           /\ q[2] => 2 \in q[1] } }

\* every namespace's source has the same length: short, or (where a group
\* has two members) over half the budget
SourceLens(st) ==
    IF \E n \in DOMAIN st.dependency_map : st.dependency_map[n] # << >>
    THEN { 1000, 300000 } ELSE { 1000 }

\* tracker states a run can start from: a fresh runner, or a runner whose
\* earlier run has already recorded an expensive call
PreloadedTracker == record(NewTracker, OPUS, 0, 800000)

TightCalls == [DefaultGuardrails EXCEPT !.max_sub_lm_calls = 1]

Disabled == [DefaultGuardrails EXCEPT !.enabled = FALSE]

RunTrackers ==
    { <<DefaultGuardrails, NewTracker>>, <<DefaultGuardrails, PreloadedTracker>>,
      <<TightCalls, NewTracker>>, <<Disabled, PreloadedTracker>> }

PoolSizes == { 1, 2 }

RunStart ==
    /\ pl_pc = "idle"
    /\ dispatch = << >>
    /\ fut = << >>
    /\ rec = << >>
    /\ checked = NoCheck
    /\ yielded = {}
    /\ cancel_k = 0
    /\ results_by_group = << >>
    /\ analyses = << >>
    /\ validation_errors = << >>
    /\ val_k = 0
    /\ result = NoResult
    /\ model_calls = << >>

InitPipeline ==
    /\ \E st \in RunStructures : PartitionReturned(st)
    /\ \E len \in SourceLens(structure) : source_len = [ n \in KnownNames(structure) |-> len ]
    /\ Len(split_oversized_groups(groups, source_len)) <= MaxGroups
    /\ max_workers \in PoolSizes
    /\ oracle = [ i \in 1..MaxGroups |-> CallOutcomes ]
    /\ \E ct \in RunTrackers : cfg = ct[1] /\ tracker = ct[2]
    /\ RunStart
    /\ SchemaUnused
    /\ BeadsUnused
    /\ ReplUnused
    /\ BatchUnused
    /\ OrchUnused

NextPipeline ==
    \/ RunBegin
    \/ \E i \in 1..NumDispatch :
          \/ TaskStarts(i) \/ TaskRaises(i) \/ TaskGetsResponse(i)
          \/ TaskStores(i) \/ TaskFinishes(i)
          \/ Harvest(i) \/ GuardrailTrips(i)
    \/ CancelNext \/ BudgetReturn \/ PoolJoined
    \/ FanoutDone \/ ValidateGroup \/ RunReturns

Spec == InitPipeline /\ [][NextPipeline]_vars


\* ---- a run over three groups given directly to run(): the call for the
\* first always answers a valid document, the call for the second always
\* answers a text the validator rejects (text that is not JSON, a JSON array,
\* an object without a required field), the call for the third always raises

Answers(payload) == [raises |-> FALSE, payload |-> payload]

Raises == [raises |-> TRUE, payload |-> NonObject("empty")]

InvalidTexts == { NonObject("garbage"), NonObject("array"), MissingFieldDoc }

ScenarioOutcomes ==
    << {Answers(ValidDoc)}, { Answers(p) : p \in InvalidTexts }, {Raises} >>

\* a FlowGroup of one namespace, named after it
SingletonGroup(n) ==
    [ name |-> [seg |-> n, part |-> 0], namespaces |-> <<n>>,
      entry_points |-> <<n>>, exit_points |-> <<n>>, internal_deps |-> << >> ]

\* max_workers: one worker, two, or run()'s default
ScenarioPoolSizes == {1, 2, 8}

InitScenario ==
    /\ structure = [namespaces |-> << >>, dependency_map |-> << >>]
    /\ p_pc = "done"
    /\ all_names = << >>
    /\ parent = << >>
    /\ edge_k = 0
    /\ groups = [ i \in 1..Len(ScenarioOutcomes) |-> SingletonGroup(i) ]
    /\ source_len = << >>
    /\ max_workers \in ScenarioPoolSizes
    /\ oracle = ScenarioOutcomes
    /\ cfg = DefaultGuardrails
    /\ tracker = NewTracker
    /\ RunStart
    /\ SchemaUnused
    /\ BeadsUnused
    /\ ReplUnused
    /\ BatchUnused
    /\ OrchUnused

\* the guardrail cannot trip in this run, so its steps are left out
NextScenario ==
    \/ RunBegin
    \/ \E i \in 1..NumDispatch :
          \/ TaskStarts(i) \/ TaskRaises(i) \/ TaskGetsResponse(i)
          \/ TaskStores(i) \/ TaskFinishes(i)
          \/ Harvest(i)
    \/ FanoutDone \/ ValidateGroup \/ RunReturns

SpecScenario == InitScenario /\ [][NextScenario]_vars

\* ---- _split_oversized_groups on the groups of small structures

\* name 1 alone, or names 1..n joined into one group: every name after the
\* first requires its predecessor (chain) or name 1 (star); with `apart' the
\* last name requires nothing and forms a group of its own
SplitStructure(n, chain, apart) ==
    [ namespaces |-> [ i \in 1..n |-> i ],
      dependency_map |->
          [ i \in 1..n |-> IF i = 1 \/ (apart /\ i = n) THEN << >>
                           ELSE IF chain THEN <<i - 1>> ELSE <<1>> ] ]

SplitStructures ==
    { SplitStructure(n, chain, apart) :
        n \in 1..MaxMembers, chain \in BOOLEAN, apart \in BOOLEAN }

\* len(source) of a namespace: a fifth of the budget, most of it, or more
\* than all of it
SourceSizes == { 100000, 400000, 600000 }

InitSplit ==
    /\ \E st \in SplitStructures : PartitionReturned(st)
    /\ source_len \in [ KnownNames(structure) -> SourceSizes ]
    /\ max_workers = 1
    /\ oracle = << >>
    /\ TrackerUnused
    /\ RunStart
    /\ SchemaUnused
    /\ BeadsUnused
    /\ ReplUnused
    /\ BatchUnused
    /\ OrchUnused

\* dispatch_groups = _split_oversized_groups(groups, source_by_namespace)
SplitGroups ==
    /\ pl_pc = "idle"
    /\ dispatch' = split_oversized_groups(groups, source_len)
    /\ pl_pc' = "split"
    /\ UNCHANGED <<partVars, schemaVars, beadsVars, replVars, batchVars, orchVars, trackVars, runInputs, fut, yielded, cancel_k, results_by_group,
                   analyses, validation_errors, val_k, result, model_calls>>

NextSplit == SplitGroups

SpecSplit == InitSplit /\ [][NextSplit]_vars

\* ---- threads record on one tracker while its guardrails are checked

InitGuard ==
    /\ cfg \in GuardConfigs
    /\ tracker = NewTracker
    /\ rec = [t \in 1..NumThreads |->
                [pc |-> 0, seen |-> NewTracker, model |-> SONNET,
                 input_tokens |-> 0, output_tokens |-> 0]]
    /\ checked = NoCheck
    /\ PartitionUnused
    /\ PipelineUnused
    /\ SchemaUnused
    /\ BeadsUnused
    /\ ReplUnused
    /\ BatchUnused
    /\ OrchUnused

NextGuard ==
    \/ CheckBegins
    \/ CheckEnds
    \/ \E t \in 1..NumThreads : ThreadEntersRecord(t) \/ ThreadWritesRecord(t)

SpecGuard == InitGuard /\ [][NextGuard]_vars

\* ---- validate_flow_analysis on every small document

\* a list entry: a JSON object with the keys it holds, or a value that is no
\* object
DictEntry(keys) == [dict |-> TRUE, keys |-> keys]
NonDictEntry == [dict |-> FALSE, keys |-> {}]

\* the entries that hold every required sub-field or all but one of them,
\* and the entry that is no object
EntriesOver(required) ==
    { DictEntry(required) } \cup { DictEntry(required \ {f}) : f \in required }
        \cup { NonDictEntry }

\* null, and the lists of at most max_entries such entries
ListValues(required, max_entries) ==
    { JsonNull } \cup
    UNION { { JsonList(s) : s \in [ 1..n -> EntriesOver(required) ] } : n \in 0..max_entries }

\* the objects that hold every required top-level field or all but one
Documents(max_entries) ==
    { Object(keys, ns, df) :
        keys \in { REQUIRED } \cup { REQUIRED \ {f} : f \in REQUIRED },
        ns \in ListValues(NAMESPACE_REQUIRED, max_entries),
        df \in ListValues(DATA_FLOW_REQUIRED, max_entries) }

\* the document as bare JSON, or inside a ``` fence with prose around it
Wrappings(doc) == { Text(FALSE, FALSE, doc, NoCall), Text(TRUE, TRUE, doc, NoCall) }

InitSchema ==
    /\ \E doc \in Documents(MaxEntries) : raw_text \in Wrappings(doc)
    /\ validated = NotValidated
    /\ PartitionUnused
    /\ TrackerUnused
    /\ PipelineUnused
    /\ BeadsUnused
    /\ ReplUnused
    /\ BatchUnused
    /\ OrchUnused

Validate ==
    /\ validated = NotValidated
    /\ validated' = validate_flow_analysis(raw_text)
    /\ UNCHANGED <<raw_text, partVars, trackVars, pipeVars, beadsVars, replVars, batchVars, orchVars>>

NextSchema == Validate

SpecSchema == InitSchema /\ [][NextSchema]_vars

\* ---- one call of a bd wrapper, on every small argument list

Strings(max_len) == UNION { [ 1..k -> Chars ] : k \in 0..max_len }

\* no tag, one tag, or two tags
TagLists(S) == { << >> } \cup { <<a>> : a \in S } \cup { <<a, b>> : a \in S, b \in S }

ToolCalls(max_len) ==
    LET S == Strings(max_len)
    IN { ToolCall("create_bead", << >>, tags, "") : tags \in TagLists(S) }
       \cup { ToolCall("link_beads", <<a, b>>, << >>, rel) :
                a \in S, b \in S, rel \in VALID_REL_TYPES \cup {"contains"} }
       \cup { ToolCall("tag_bead", <<a>>, tags, "") : a \in S, tags \in TagLists(S) }
       \cup { ToolCall(name, <<a>>, << >>, "") :
                name \in {"comment_bead", "close_bead"}, a \in S }

InitTools ==
    /\ \E call \in ToolCalls(MaxIdLen) :
          tool = [call |-> call, pc |-> 1, status |-> "running", success |-> TRUE]
    /\ bd_log = << >>
    /\ rd = NoReduction
    /\ PartitionUnused
    /\ TrackerUnused
    /\ PipelineUnused
    /\ SchemaUnused
    /\ ReplUnused
    /\ BatchUnused
    /\ OrchUnused

NextTools == ToolChecks \/ ToolRunsBd \/ ToolReturns

SpecTools == InitTools /\ [][NextTools]_vars

\* ---- reduce_to_beads on every small list of analyses

\* analysis k of n: its flow_name is its own or that of the first analysis
\* (group names can coincide), it lists its own namespace and possibly that
\* of the first analysis, and its edges lead to the namespaces 1..n of the
\* analyses or to namespace n + 1, which no analysis lists
AnalysesAt(k, n) ==
    { Analysis(f, N, layer, df) :
        f \in {1, k}, N \in { {k}, {1, k} }, layer \in Strings(1),
        df \in UNION { [ 1..m -> 1..(n + 1) ] : m \in 0..2 } }

RECURSIVE AnalysisLists(_, _)
AnalysisLists(k, n) ==
    IF k = 0 THEN { << >> }
    ELSE { Append(s, a) : s \in AnalysisLists(k - 1, n), a \in AnalysesAt(k, n) }

InitReduce ==
    /\ \E n \in 0..MaxAnalyses : \E flow_analyses \in AnalysisLists(n, n) :
          rd = ReductionOf(flow_analyses)
    /\ bd_log = << >>
    /\ tool = NoToolCall
    /\ PartitionUnused
    /\ TrackerUnused
    /\ PipelineUnused
    /\ SchemaUnused
    /\ ReplUnused
    /\ BatchUnused
    /\ OrchUnused

NextReduce ==
    \/ ReduceCreates
    \/ ReduceStartsLinking
    \/ ReduceNextAnalysis
    \/ ReduceLinks
    \/ ReduceReturns

SpecReduce == InitReduce /\ [][NextReduce]_vars

\* ---- reduce_to_beads on analyses with at most one edge each

\* as AnalysesAt, with a layer that gives no tag or a rejected tag, and at
\* most one data_flow edge
SingleEdgeAnalysesAt(k, n) ==
    { Analysis(f, N, layer, df) :
        f \in {1, k}, N \in { {k}, {1, k} }, layer \in { << >>, <<";">> },
        df \in UNION { [ 1..m -> 1..(n + 1) ] : m \in 0..1 } }

RECURSIVE SingleEdgeLists(_, _)
SingleEdgeLists(k, n) ==
    IF k = 0 THEN { << >> }
    ELSE { Append(s, a) : s \in SingleEdgeLists(k - 1, n), a \in SingleEdgeAnalysesAt(k, n) }

InitLinking ==
    /\ \E n \in 0..MaxAnalyses : \E flow_analyses \in SingleEdgeLists(n, n) :
          rd = ReductionOf(flow_analyses)
    /\ bd_log = << >>
    /\ tool = NoToolCall
    /\ PartitionUnused
    /\ TrackerUnused
    /\ PipelineUnused
    /\ SchemaUnused
    /\ ReplUnused
    /\ BatchUnused
    /\ OrchUnused

SpecLinking == InitLinking /\ [][NextReduce]_vars

\* ---- the REPL loop under every small iteration limit and guardrail

ReplConfigs == GuardConfigs \cup { DefaultGuardrails }

InitRepl ==
    /\ root_max_iterations \in 0..MaxIterations
    /\ repl = ReplStart
    /\ cfg \in ReplConfigs
    /\ tracker = NewTracker
    /\ rec = << >>
    /\ checked = NoCheck
    /\ PartitionUnused
    /\ PipelineUnused
    /\ SchemaUnused
    /\ BeadsUnused
    /\ BatchUnused
    /\ OrchUnused

NextRepl ==
    \/ ReplExhausted
    \/ ReplChecks
    \/ ReplCallsRoot
    \/ ReplExecutes

SpecRepl == InitRepl /\ [][NextRepl]_vars

\* ---- _call_sub_lm_batched on every small list of prompts

PromptTexts == { "p", "q" }

PromptLists(max_len) == UNION { [ 1..n -> PromptTexts ] : n \in 0..max_len }

\* the guardrails of the REPL runs, and a ceiling of one sub-model call
BatchConfigs == ReplConfigs \cup { [DefaultGuardrails EXCEPT !.max_sub_lm_calls = 1] }

InitBatch ==
    /\ \E prompts \in PromptLists(MaxPrompts) : \E workers \in 1..2 :
          batch = BatchStart(prompts, workers)
    /\ cfg \in BatchConfigs
    /\ tracker = NewTracker
    /\ rec = << >>
    /\ checked = NoCheck
    /\ PartitionUnused
    /\ PipelineUnused
    /\ SchemaUnused
    /\ BeadsUnused
    /\ ReplUnused
    /\ OrchUnused

NextBatch ==
    \/ BatchBegins
    \/ \E i \in 1..Len(batch.fut) : BatchCallStarts(i)
    \/ \E i \in 1..Len(batch.fut) : BatchCallEnds(i)
    \/ \E i \in 1..Len(batch.fut) : BatchCollects(i)
    \/ BatchCancelsNext
    \/ BatchLeavesPool

SpecBatch == InitBatch /\ [][NextBatch]_vars

\* ---- CodebaseAnalyzer.run on every state of the output directory

\* the metadata files: none, an unreadable one, one without a commit SHA,
\* one with a commit SHA
MetadataFiles == { NoMetadata, CorruptMetadata, Metadata(NoSha) } \cup { Metadata(s) : s \in Shas }

InitOrch ==
    /\ \E force \in BOOLEAN, output_dir \in BOOLEAN, stored \in MetadataFiles,
          head \in Shas \cup {NoSha}, changed \in BOOLEAN :
          /\ ~output_dir => stored = NoMetadata
          /\ orch = [NoOrch EXCEPT !.pc = "idle", !.force = force, !.output_dir = output_dir,
                                   !.stored = stored, !.head = head, !.changed = changed]
    /\ PartitionUnused
    /\ TrackerUnused
    /\ PipelineUnused
    /\ SchemaUnused
    /\ BeadsUnused
    /\ ReplUnused
    /\ BatchUnused

NextOrch ==
    \/ OrchChecksStaleness
    \/ OrchLoadsContext
    \/ OrchRunsEngine

SpecOrch == InitOrch /\ [][NextOrch]_vars
\* ------------------------------------------------------- partition claims

MemberSet(g) == Range(g.namespaces)

\* number of (group, position) slots of the returned list that hold name n
Occurrences(n) ==
    Cardinality({ q \in (1..Len(groups)) \X (1..NumNames) :
                    /\ q[2] <= Len(groups[q[1]].namespaces)
                    /\ groups[q[1]].namespaces[q[2]] = n })

\* C1: when partition_flow_groups has returned, every input namespace name is a
\* member of exactly one returned group, exactly once, and no group holds a
\* name that is not an input namespace.
C1_PartitionComplete ==
    p_pc = "done" =>
        /\ \A n \in KnownNames(structure) : Occurrences(n) = 1
        /\ \A g \in 1..Len(groups) : MemberSet(groups[g]) \subseteq KnownNames(structure)
        /\ \A g \in 1..Len(groups) : Len(groups[g].namespaces) <= NumNames

\* a run that returned at least two groups, one of them with several members
C1_Witness ==
    /\ p_pc = "done"
    /\ Len(groups) >= 2
    /\ \E g \in 1..Len(groups) : Len(groups[g].namespaces) >= 2

\* dependency edges between known namespaces, direction ignored
Adjacent(st, a, b) ==
    /\ a \in KnownNames(st)
    /\ b \in KnownNames(st)
    /\ \/ b \in Range(GetList(st.dependency_map, a))
       \/ a \in Range(GetList(st.dependency_map, b))

RECURSIVE ReachableFrom(_, _)
ReachableFrom(st, S) ==
    LET more == S \cup { b \in KnownNames(st) : \E a \in S : Adjacent(st, a, b) }
    IN IF more = S THEN S ELSE ReachableFrom(st, more)

Connected(st, a, b) == b \in ReachableFrom(st, {a})

SameGroup(a, b) ==
    \E g \in 1..Len(groups) : a \in MemberSet(groups[g]) /\ b \in MemberSet(groups[g])

\* C2: two known namespaces are in the same returned group if and only if a
\* path of dependency edges between known namespaces, direction ignored,
\* connects them; an edge to an external name connects nothing.
C2_PartitionConnectivity ==
    p_pc = "done" =>
        \A a \in KnownNames(structure) : \A b \in KnownNames(structure) :
            SameGroup(a, b) <=> Connected(structure, a, b)

\* two namespaces that no edge joins directly are grouped together through
\* a third one
C2_Witness ==
    /\ p_pc = "done"
    /\ \E a \in KnownNames(structure) : \E b \in KnownNames(structure) :
          /\ a # b
          /\ SameGroup(a, b)
          /\ ~Adjacent(structure, a, b)

\* two known namespaces that both require the same external name and are
\* kept in different groups
C2_ExternalCase ==
    /\ p_pc = "done"
    /\ \E a \in KnownNames(structure) : \E b \in KnownNames(structure) :
          /\ a # b
          /\ ~SameGroup(a, b)
          /\ \E x \in Names \ KnownNames(structure) :
                /\ x \in Range(GetList(structure.dependency_map, a))
                /\ x \in Range(GetList(structure.dependency_map, b))


\* list s read in the order p
Permuted(s, p) == [ i \in 1..Len(s) |-> s[p[i]] ]

\* the dependency maps that hold, for every key of S, the same dependencies as
\* dmap in some order
RECURSIVE DepOrders(_, _)
DepOrders(dmap, S) ==
    IF S = {} THEN { << >> }
    ELSE LET n == CHOOSE x \in S : TRUE
         IN { [ k \in DOMAIN r \cup {n} |-> IF k = n THEN Permuted(dmap[n], p) ELSE r[k] ] :
                <<r, p>> \in DepOrders(dmap, S \ {n}) \X Permutations(1..Len(dmap[n])) }

\* the structures that hold the namespaces and dependencies of st in any order
Reorderings(st) ==
    { [ namespaces |-> Permuted(st.namespaces, p), dependency_map |-> d ] :
        <<p, d>> \in Permutations(1..Len(st.namespaces))
                      \X DepOrders(st.dependency_map, DOMAIN st.dependency_map) }

\* C16: the list of groups returned for a structure (member lists, names,
\* entry points, exit points, internal deps, and the order of the groups) is
\* the list returned for every reordering of its namespace list and of its
\* dependency lists.
C16_OrderIndependent ==
    p_pc = "done" =>
        \A st \in Reorderings(structure) : partition_flow_groups(st) = groups

\* groups returned for a namespace list in descending order and a dependency
\* list of several names in descending order
C16_Witness ==
    /\ p_pc = "done"
    /\ Len(groups) >= 2
    /\ Len(structure.namespaces) >= 3
    /\ structure.namespaces[1] > structure.namespaces[2]
    /\ \E n \in DOMAIN structure.dependency_map :
          /\ Len(structure.dependency_map[n]) >= 2
          /\ structure.dependency_map[n][1] > structure.dependency_map[n][2]

\* the names the structure lists as dependencies of n
DepsOf(n) == Range(GetList(structure.dependency_map, n))

\* list s holds exactly the names of S, each once
ListsExactly(s, S) == Range(s) = S /\ Len(s) = Cardinality(S)

\* n has no edge at all: it requires nothing and no known namespace requires it
NoEdges(n) ==
    /\ DepsOf(n) = {}
    /\ \A m \in KnownNames(structure) : n \notin DepsOf(m)

\* C17: in every returned group, entry_points lists exactly the members that
\* depend on no member of the group and exit_points exactly the members no
\* member of the group depends on; a namespace without edges is alone in its
\* group and is that group's one entry point and one exit point.
C17_EntryAndExitPoints ==
    p_pc = "done" =>
        /\ \A g \in 1..Len(groups) :
              LET M == MemberSet(groups[g])
              IN /\ ListsExactly(groups[g].entry_points,
                                 { n \in M : DepsOf(n) \cap M = {} })
                 /\ ListsExactly(groups[g].exit_points,
                                 { n \in M : \A m \in M : n \notin DepsOf(m) })
        /\ \A n \in KnownNames(structure) : NoEdges(n) =>
              \E g \in 1..Len(groups) :
                 /\ groups[g].namespaces = <<n>>
                 /\ groups[g].entry_points = <<n>>
                 /\ groups[g].exit_points = <<n>>

\* a returned group of several members whose entry points differ from its
\* exit points, next to a namespace without edges
C17_Witness ==
    /\ p_pc = "done"
    /\ \E n \in KnownNames(structure) : NoEdges(n)
    /\ \E g \in 1..Len(groups) :
          /\ Len(groups[g].namespaces) >= 2
          /\ Range(groups[g].entry_points) # Range(groups[g].exit_points)

\* the root find(x) returns under the current parent map
RootOf(x) == find(parent, x).root

\* the names in the set of x
SetOf(x) == { m \in DOMAIN parent : RootOf(m) = RootOf(x) }

\* C32: throughout the union-find phase the root of every set is the
\* smallest name in that set; once the groups are returned, each group's
\* root is its smallest member, the groups are in ascending order of that
\* member, and each group is named after the last segment of that member.
C32_SmallestNameIsRoot ==
    /\ p_pc \in {"union", "done"} =>
          \A n \in KnownNames(structure) : RootOf(n) = Min(SetOf(n))
    /\ (p_pc = "done" /\ structure.namespaces # << >>) =>
          /\ \A g \in 1..Len(groups) :
                /\ \A n \in MemberSet(groups[g]) : RootOf(n) = Min(MemberSet(groups[g]))
                /\ groups[g].name = [seg |-> Segment(Min(MemberSet(groups[g]))), part |-> 0]
          /\ \A g \in 1..Len(groups) : \A h \in 1..Len(groups) :
                g < h => Min(MemberSet(groups[g])) < Min(MemberSet(groups[h]))

\* the first returned group is a set whose root was replaced by a smaller
\* name during the unions: an edge between two larger names was merged
\* before the edge to the smallest one
C32_Witness ==
    /\ p_pc = "done"
    /\ Len(groups) >= 1
    /\ Len(groups[1].namespaces) >= 3
    /\ \E e \in 1..Len(EdgeList(structure, all_names)) :
          LET first == EdgeList(structure, all_names)[e]
          IN /\ \A k \in 1..(e - 1) :
                   EdgeList(structure, all_names)[k][2] \notin KnownNames(structure)
             /\ first[2] \in KnownNames(structure)
             /\ first[1] # first[2]
             /\ Min({first[1], first[2]}) > Min(MemberSet(groups[1]))
             /\ {first[1], first[2]} \subseteq MemberSet(groups[1])
\* C6: when every thread's record() call has returned, the tracker's call
\* count equals the number of calls, and its input-token, output-token, cost and
\* per-model totals equal the sums over those calls (no update is lost).
AllRecorded == \A t \in DOMAIN rec : rec[t].pc = 10

\* the sum of f[t] over t in S
RECURSIVE SumOver(_, _)
SumOver(S, f) ==
    IF S = {} THEN 0
    ELSE LET t == CHOOSE x \in S : TRUE IN f[t] + SumOver(S \ {t}, f)

C6_NoLostUpdate ==
    AllRecorded =>
        /\ tracker.sub_lm_calls = Cardinality(DOMAIN rec)
        /\ tracker.total_input_tokens = SumOver(DOMAIN rec, [t \in DOMAIN rec |-> rec[t].input_tokens])
        /\ tracker.total_output_tokens = SumOver(DOMAIN rec, [t \in DOMAIN rec |-> rec[t].output_tokens])
        /\ tracker.total_cost = SumOver(DOMAIN rec, [t \in DOMAIN rec |-> RecordDelta(3, rec[t])])
        /\ \A m \in Models :
              tracker.calls_by_model[m] = Cardinality({ t \in DOMAIN rec : rec[t].model = m })


\* ---------------------------------------------------------- pipeline claims

Dispatched == 1..NumDispatch

Returned == pl_pc = "returned"

Completed == Returned /\ result.status \in {"completed", "completed_with_errors"}

\* the fan-out call of group i returned a text
Responded(i) == fut[i].state = "FINISHED" /\ ~fut[i].exc

AnalysesOf(i) == { k \in 1..Len(analyses) : analyses[k].group = i }

ErrorsOf(i) == { k \in 1..Len(validation_errors) : validation_errors[k].group = i }

TotalCalls ==
    SumOver(DOMAIN model_calls,
            [ i \in DOMAIN model_calls |-> model_calls[i].fanout + model_calls[i].retry ])

\* C3: the model is called at most once in the fan-out and at most once more
\* as a retry for every dispatch group, and a group is retried only if its own
\* fan-out call returned a text that failed schema validation.
C3_AtMostOneRetryAfterOwnFailure ==
    \A i \in DOMAIN model_calls :
        /\ model_calls[i].fanout <= 1
        /\ model_calls[i].retry <= 1
        /\ model_calls[i].retry = 1 =>
              /\ Responded(i)
              /\ validate_flow_analysis(fut[i].raw).status = "ValidationError"

\* C4: when run() has returned completed or completed_with_errors, every
\* dispatch group has either one analysis or one validation error and not
\* both, so that groups_succeeded plus the number of validation errors is
\* groups_total.
C4_EveryGroupAccounted ==
    Completed =>
        /\ \A i \in Dispatched :
              Cardinality(AnalysesOf(i)) + Cardinality(ErrorsOf(i)) = 1
        /\ result.groups_succeeded + Len(result.validation_errors) = result.groups_total

\* the guardrail check of the fan-out loop has found EXCEEDED
Tripped == pl_pc \in {"cancel", "join"} \/ (Returned /\ result.status = "budget_exceeded")

\* the tracker is past its max cost (a run adds far less than the ceiling,
\* so it was past it when the run began) and the guardrails are enabled
StartedOverBudget ==
    /\ cfg.enabled
    /\ tracker.total_cost >= cfg.max_cost_per_run_usd
    /\ NumDispatch > 0

\* C5: when a run dispatches groups with the tracker already past its max
\* cost, it returns budget_exceeded, and once the guardrail check has found
\* EXCEEDED no group whose call had not started is started.
C5_NoStartAfterExceeded ==
    /\ [](StartedOverBudget /\ Returned => result.status = "budget_exceeded")
    /\ [][ StartedOverBudget /\ Tripped =>
             \A i \in Dispatched :
                 fut[i].state = "PENDING" => fut'[i].state # "RUNNING" ]_vars

\* C7: with guardrails enabled, the fan-out calls and retry calls of a run
\* together never exceed max_sub_lm_calls.
C7_CallsWithinCeiling ==
    cfg.enabled => TotalCalls <= cfg.max_sub_lm_calls

\* C8: when the guardrail has tripped and run() returned budget_exceeded,
\* every response that as_completed had handed over by then and that is
\* schema-valid has its analysis in the result.
C8_ReturnedResponsesValidated ==
    (Returned /\ result.status = "budget_exceeded") =>
        \A i \in yielded :
            (~fut[i].exc /\ validate_flow_analysis(fut[i].raw).status = "ok") =>
                \E k \in 1..Len(result.analyses) : result.analyses[k].group = i

\* group j has been validated: its iteration of the validation loop left an
\* analysis or an error, after a retry where its first response was invalid
Validated(j) ==
    /\ Cardinality(AnalysesOf(j)) + Cardinality(ErrorsOf(j)) = 1
    /\ (Responded(j) /\ validate_flow_analysis(fut[j].raw).status = "ValidationError")
          => model_calls[j].retry = 1

\* C9: when the fan-out call of a group raised and the guardrail did not
\* trip, the run returns with one API-error entry for that group, the group is
\* not retried, and every other group was called and validated (and retried
\* where its first response was invalid).
C9_RaiseDoesNotAbort ==
    \A i \in Dispatched :
        (fut[i].exc /\ pl_pc \in {"returned", "raised"} /\ ~Tripped) =>
            /\ Completed
            /\ \E k \in ErrorsOf(i) :
                  /\ ErrorsOf(i) = {k}
                  /\ validation_errors[k].name = dispatch[i].name
                  /\ validation_errors[k].msg = Message("API error: " \o ExcText)
            /\ model_calls[i].retry = 0
            /\ \A j \in Dispatched \ {i} :
                  /\ model_calls[j].fanout = 1
                  /\ (~fut[j].exc => Validated(j))

\* the fan-out call of group i returned a text that failed schema validation
FirstResponseInvalid(i) ==
    Responded(i) /\ validate_flow_analysis(fut[i].raw).status = "ValidationError"

\* group i has been retried and the retry call returned a schema-valid text
RetryResponseValid(i) ==
    /\ model_calls[i].retry >= 1
    /\ validate_flow_analysis(model_calls[i].retry_raw).status = "ok"

\* C11: when the fan-out response of a group failed validation and its retry
\* response is schema-valid, the analysis parsed from the retry response is
\* the group's one entry of analyses, no validation error is recorded for the
\* group, and exactly two model calls (one fan-out, one retry) were made for
\* it.
C11_RetrySuccessAccepted ==
    \A i \in DOMAIN model_calls :
        (FirstResponseInvalid(i) /\ RetryResponseValid(i)) =>
            /\ \E k \in AnalysesOf(i) :
                  /\ AnalysesOf(i) = {k}
                  /\ analyses[k].origin = [group |-> i, retry |-> TRUE]
                  /\ analyses[k].data = model_calls[i].retry_raw.payload
            /\ ErrorsOf(i) = {}
            /\ model_calls[i].fanout = 1
            /\ model_calls[i].retry = 1
            /\ Returned => \E k \in 1..Len(result.analyses) : result.analyses[k].group = i

\* a run has returned with a group whose invalid first response was
\* followed by a valid retry response
C11_Witness ==
    /\ Completed
    /\ \E i \in Dispatched : FirstResponseInvalid(i) /\ RetryResponseValid(i)

\* C18: a run the guardrail did not stop returns status "completed" exactly
\* when the validation_errors it returns are empty, and
\* "completed_with_errors" otherwise; the returned errors are the ones the
\* run recorded.
C18_FinalStatus ==
    (Returned /\ ~Tripped) =>
        /\ result.validation_errors = validation_errors
        /\ result.status = IF result.validation_errors = << >>
                           THEN "completed" ELSE "completed_with_errors"

\* a run of two groups returned without a trip, one group analysed and the
\* other recorded as a validation error
C18_Witness ==
    /\ Returned /\ ~Tripped
    /\ NumDispatch = 2
    /\ Len(result.analyses) = 1
    /\ Len(result.validation_errors) = 1
    /\ result.status = "completed_with_errors"

\* a run of two groups returned without a trip and without validation errors
C18_CompletedCase ==
    /\ Returned /\ ~Tripped
    /\ NumDispatch = 2
    /\ result.validation_errors = << >>
    /\ result.status = "completed"

\* the result the spec prescribes for an empty group list
EmptyRunResult ==
    [status |-> "completed", analyses |-> << >>, validation_errors |-> << >>,
     cost_summary |-> summary(cfg, tracker), groups_total |-> 0, groups_succeeded |-> 0]

\* C19: a run over an empty group list returns status "completed" with
\* groups_total 0, groups_succeeded 0, no analyses and no validation errors;
\* no step of it dispatches or makes a model call, and no step of it changes
\* the cost tracker.
C19_EmptyInput ==
    /\ [](groups = << >> =>
             /\ fut = << >> /\ model_calls = << >> /\ dispatch = << >>
             /\ Returned => result = EmptyRunResult)
    /\ [][ groups = << >> => tracker' = tracker ]_vars

\* a run over an empty group list has returned, on a runner whose tracker
\* was already past the cost ceiling
C19_Witness ==
    /\ Returned
    /\ groups = << >>
    /\ tracker = PreloadedTracker
    /\ cfg.enabled
    /\ result.cost_summary.status = "exceeded"

\* the tracker is at EXCEEDED through its call count, which a run raises
\* from below the ceiling by its own calls
ExceededInRun ==
    /\ check_guardrails(cfg, tracker) = "exceeded"
    /\ tracker.total_cost < cfg.max_cost_per_run_usd

\* the step starts a model call: a queued fan-out call or a retry call
StartsModelCall ==
    \E i \in DOMAIN fut :
        \/ fut[i].state = "PENDING" /\ fut'[i].state = "RUNNING"
        \/ model_calls'[i].retry > model_calls[i].retry

\* C27: while the tracker of a run is at EXCEEDED, no step of the run starts
\* a model call, neither a queued fan-out call nor a retry call.
C27_NoCallOnceExceeded ==
    [][ ExceededInRun => ~StartsModelCall ]_vars

\* a fan-out call is running that started when the first call's record had
\* already brought the tracker to EXCEEDED
C27_QueuedCallStartsCase ==
    /\ pl_pc = "fanout"
    /\ max_workers = 1
    /\ NumDispatch = 2
    /\ fut[1].state = "FINISHED"
    /\ fut[2].state = "RUNNING"
    /\ ExceededInRun

\* the validation loop has handled the first response of group i
FirstResponseHandled(i) ==
    /\ pl_pc \in {"validate", "returned"}
    /\ val_k > i

\* C28: no exception leaves run(): a group whose first response fails
\* validation in any way is retried or gets a validation_errors entry.
C28_NoExceptionEscapes ==
    /\ pl_pc # "raised"
    /\ \A i \in Dispatched :
          (Responded(i) /\ FirstResponseHandled(i) /\ ~Tripped
             /\ ~IsEmptyText(GetRaw(results_by_group, dispatch[i].name))
             /\ validate_flow_analysis(GetRaw(results_by_group, dispatch[i].name)).status # "ok")
          => \/ model_calls[i].retry >= 1
             \/ ErrorsOf(i) # {}

\* the statement of C28 for first responses that validate_flow_analysis
\* accepts or rejects with a ValidationError
C28_ValidationErrorsHandled ==
    pl_pc # "raised" =>
       \A i \in Dispatched :
          (Responded(i) /\ FirstResponseHandled(i) /\ ~Tripped
             /\ ~IsEmptyText(GetRaw(results_by_group, dispatch[i].name))
             /\ validate_flow_analysis(GetRaw(results_by_group, dispatch[i].name)).status # "ok")
          => \/ model_calls[i].retry >= 1
             \/ ErrorsOf(i) # {}

\* run() has ended by the TypeError of a first response whose namespaces
\* value is null
C28_TypeErrorCase ==
    /\ pl_pc = "raised"
    /\ \E i \in Dispatched :
          /\ Responded(i)
          /\ validate_flow_analysis(GetRaw(results_by_group, dispatch[i].name)).status
                = "TypeError"

\* C29: distinct dispatch groups have distinct names, a key of
\* results_by_group once written keeps its value, and the response the
\* validation loop looks up for a group is that of the group's own call (or
\* none).
C29_OwnResponsePerKey ==
    /\ [](\A i \in 1..Len(dispatch) : \A j \in 1..Len(dispatch) :
             i # j => dispatch[i].name # dispatch[j].name)
    /\ [][ \A name \in DOMAIN results_by_group :
             /\ name \in DOMAIN results_by_group'
             /\ results_by_group'[name] = results_by_group[name] ]_vars
    /\ [](pl_pc \in {"validate", "returned"} =>
             \A i \in 1..Len(dispatch) :
                GetRaw(results_by_group, dispatch[i].name).origin.group \in {0, i})

\* two dispatch groups of one name have both been answered, and the
\* validation loop finds the second group's response for the first group
C29_SharedKeyCase ==
    /\ pl_pc = "validate"
    /\ NumDispatch = 2
    /\ dispatch[1].name = dispatch[2].name
    /\ Responded(1) /\ Responded(2)
    /\ GetRaw(results_by_group, dispatch[1].name).origin.group = 2

\* C33: at any moment of a pipeline run at most min(max_workers, number of
\* dispatch groups) model calls are in flight: no more pool tasks than that
\* are running, and no task is running once the validation loop, which makes
\* its retry calls one at a time, has begun.
C33_CallsInFlightBounded ==
    /\ pl_pc \in {"fanout", "cancel", "join"} =>
          /\ Cardinality(Running) <= max_workers
          /\ Cardinality(Running) <= NumDispatch
    /\ pl_pc \in {"validate", "raised", "returned"} => Running = {}

\* one worker for two groups: the first call is in flight and the second
\* group waits in the queue
C33_Witness ==
    /\ pl_pc = "fanout"
    /\ max_workers = 1
    /\ NumDispatch = 2
    /\ fut[1].state = "RUNNING"
    /\ fut[2].state = "PENDING"

AllFanoutFinished == \A i \in 1..NumDispatch : fut[i].state = "FINISHED"

\* this step makes a retry call for group k
RetryCallStep(k) == model_calls'[k].retry # model_calls[k].retry

\* this step is a pass of the validation loop
ValidationStep == val_k' # val_k \/ analyses' # analyses \/ pl_pc' = "raised"

\* C34: no validation or retry call starts while any fan-out call is still
\* pending or in flight: every fan-out future has completed before the first
\* validation, and retry calls are issued one at a time in dispatch-group
\* order.
C34_ValidationAfterFanout ==
    /\ [](pl_pc \in {"validate", "raised"} => AllFanoutFinished /\ Running = {})
    /\ [][ (pl_pc # "idle" /\ ValidationStep) =>
              (pl_pc \in {"fanout", "validate"} /\ AllFanoutFinished) ]_vars
    /\ [][ \A k \in 1..Len(model_calls) :
              (pl_pc # "idle" /\ RetryCallStep(k)) =>
                 /\ pl_pc = "validate"
                 /\ AllFanoutFinished
                 /\ k = val_k
                 /\ model_calls'[k].retry = model_calls[k].retry + 1
                 /\ \A j \in 1..Len(model_calls) :
                       /\ j # k => ~RetryCallStep(j)
                       /\ j > k => model_calls[j].retry = 0
                       /\ j < k => model_calls'[j].retry <= 1 ]_vars

\* both groups of a run have been retried, the first before the second
C34_Witness ==
    /\ pl_pc = "validate"
    /\ NumDispatch = 2
    /\ val_k = 3
    /\ model_calls[1].retry = 1
    /\ model_calls[2].retry = 1
    /\ max_workers = 2

\* the summary of the returned result shows what the tracker holds
SummaryMatchesTracker ==
    /\ result.cost_summary.total_cost_usd = tracker.total_cost
    /\ result.cost_summary.total_input_tokens = tracker.total_input_tokens
    /\ result.cost_summary.total_output_tokens = tracker.total_output_tokens
    /\ result.cost_summary.calls_by_model = tracker.calls_by_model

\* C39: the cost_summary of every PipelineResult accounts for every model
\* call whose cost the tracker records for that run, the calls still in
\* flight when the guardrail tripped and the budget_exceeded result was built
\* included.
C39_SummaryAccountsEveryCall ==
    pl_pc = "returned" => SummaryMatchesTracker

\* the statement of C39 for the results that are not budget_exceeded
C39_CompletedRunsAccounted ==
    (pl_pc = "returned" /\ result.status # "budget_exceeded") => SummaryMatchesTracker

\* run() has returned budget_exceeded and the tracker holds the cost of a
\* call that was recorded after the summary was taken
C39_LateRecordCase ==
    /\ pl_pc = "returned"
    /\ result.status = "budget_exceeded"
    /\ \E i \in 1..NumDispatch : fut[i].state = "FINISHED" /\ ~fut[i].exc /\ i \notin yielded
    /\ tracker.total_cost > result.cost_summary.total_cost_usd
    /\ tracker.calls_by_model[SONNET] > result.cost_summary.calls_by_model[SONNET]

\* what the scenario's result must hold when `succeeded' groups succeeded
ScenarioResult(succeeded) ==
    /\ pl_pc # "raised"
    /\ Returned =>
          /\ result.status = "completed_with_errors"
          /\ result.groups_total = 3
          /\ result.groups_succeeded = succeeded
          /\ Len(result.validation_errors) = 2
          /\ Cardinality(ErrorsOf(2)) = 1
          /\ Cardinality(ErrorsOf(3)) = 1
          /\ \A i \in Dispatched : model_calls[i].fanout = 1

SplitDone == pl_pc = "split"

Budget == MAX_SOURCE_CHARS_PER_GROUP

\* C12: when no single namespace's source is longer than the budget, every
\* group _split_oversized_groups emits has a total member source length of at
\* most the budget.
C12_EmittedGroupsWithinBudget ==
    (SplitDone /\ \A n \in DOMAIN source_len : source_len[n] <= Budget) =>
        \A g \in 1..Len(dispatch) : TotalChars(source_len, dispatch[g].namespaces) <= Budget

\* the sub-groups emitted for input group g, or the group itself if unsplit
SubGroupsOf(g) == SplitGroup(groups[g], source_len)

IsSplit(g) == TotalChars(source_len, groups[g].namespaces) > Budget

\* C13: for every group that is split, the sub-groups are emitted, their
\* member lists hold no name twice, their member sets are pairwise disjoint
\* and the union of these sets is the member set of the original group.
C13_SplitIsPartition ==
    SplitDone =>
        \A g \in 1..Len(groups) : IsSplit(g) =>
            LET subs == SubGroupsOf(g)
            IN /\ \A k \in 1..Len(subs) : subs[k] \in Range(dispatch)
               /\ \A k \in 1..Len(subs) :
                     Cardinality(MemberSet(subs[k])) = Len(subs[k].namespaces)
               /\ \A j \in 1..Len(subs) : \A k \in 1..Len(subs) :
                     j # k => MemberSet(subs[j]) \cap MemberSet(subs[k]) = {}
               /\ UNION { MemberSet(subs[k]) : k \in 1..Len(subs) } = MemberSet(groups[g])

\* a group of several namespaces has been split into several sub-groups, one
\* of them with several members
C13_Witness ==
    /\ SplitDone
    /\ \E g \in 1..Len(groups) :
          /\ IsSplit(g)
          /\ Len(SubGroupsOf(g)) >= 2
          /\ \E k \in 1..Len(SubGroupsOf(g)) : Len(SubGroupsOf(g)[k].namespaces) >= 2

\* the names sub-group member n depends on inside member set M, by the
\* internal_deps of the group it was cut from
EdgesWithin(group, n, M) == Range(GetList(group.internal_deps, n)) \cap M

\* internal_deps of sub lists, per member, exactly the edges of group with
\* both endpoints in the sub-group
InternalDepsRestricted(group, sub) ==
    LET M == MemberSet(sub)
    IN /\ DOMAIN sub.internal_deps = { n \in M : EdgesWithin(group, n, M) # {} }
       /\ \A n \in DOMAIN sub.internal_deps :
             Range(sub.internal_deps[n]) = EdgesWithin(group, n, M)

\* C30: for each sub-group produced by _split_oversized_groups, entry_points
\* lists the members with no dependency inside the sub-group, exit_points
\* the members that no sub-group member depends on, and internal_deps holds
\* exactly the original edges with both endpoints in the sub-group.
C30_SubGroupPointsAsPartition ==
    SplitDone =>
        \A g \in 1..Len(groups) : IsSplit(g) =>
            LET subs == SubGroupsOf(g)
            IN \A k \in 1..Len(subs) :
                  LET M == MemberSet(subs[k])
                  IN /\ ListsExactly(subs[k].entry_points,
                            { n \in M : EdgesWithin(groups[g], n, M) = {} })
                     /\ ListsExactly(subs[k].exit_points,
                            { n \in M : \A m \in M : n \notin EdgesWithin(groups[g], m, M) })
                     /\ InternalDepsRestricted(groups[g], subs[k])

\* the internal_deps part of C30 alone
C30_InternalDepsOfSubGroups ==
    SplitDone =>
        \A g \in 1..Len(groups) : IsSplit(g) =>
            \A k \in 1..Len(SubGroupsOf(g)) :
                InternalDepsRestricted(groups[g], SubGroupsOf(g)[k])

\* what the sub-groups' lists hold instead: the two roles exchanged
C30_PointsExchanged ==
    SplitDone =>
        \A g \in 1..Len(groups) : IsSplit(g) =>
            LET subs == SubGroupsOf(g)
            IN \A k \in 1..Len(subs) :
                  LET M == MemberSet(subs[k])
                  IN /\ ListsExactly(subs[k].exit_points,
                            { n \in M : EdgesWithin(groups[g], n, M) = {} })
                     /\ ListsExactly(subs[k].entry_points,
                            { n \in M : \A m \in M : n \notin EdgesWithin(groups[g], m, M) })

\* an emitted sub-group with an edge inside it, whose entry_points name the
\* member that depends on another member
C30_DependentEntryCase ==
    /\ SplitDone
    /\ \E g \in 1..Len(groups) :
          /\ IsSplit(g)
          /\ \E k \in 1..Len(SubGroupsOf(g)) :
                LET sub == SubGroupsOf(g)[k]
                IN /\ sub \in Range(dispatch)
                   /\ \E n \in MemberSet(sub) :
                         /\ EdgesWithin(groups[g], n, MemberSet(sub)) # {}
                         /\ n \in Range(sub.entry_points)

\* math.ceil(total_chars / budget) for input group g
NumSplitsOf(g) == CeilDiv(TotalChars(source_len, groups[g].namespaces), Budget)

RECURSIVE Concat(_)
Concat(seqs) == IF seqs = << >> THEN << >> ELSE Head(seqs) \o Concat(Tail(seqs))

\* the sub-groups of g hold at most ceil(member_count / num_splits) members
\* each, taken in name order, and are named part1..partK in that order
ChunksInNameOrder(g) ==
    LET subs == SubGroupsOf(g)
    IN /\ \A k \in 1..Len(subs) :
             /\ Len(subs[k].namespaces) <= CeilDiv(Len(groups[g].namespaces), NumSplitsOf(g))
             /\ subs[k].name = [seg |-> groups[g].name.seg, part |-> k]
             /\ subs[k] \in Range(dispatch)
       /\ Concat([ k \in 1..Len(subs) |-> subs[k].namespaces ]) = sorted(groups[g].namespaces)

\* C31: a group whose total source size exceeds the budget is split into
\* exactly ceil(total_size / budget) sub-groups, each holding at most
\* ceil(member_count / num_splits) members taken in name order, named
\* part1 to partK consecutively in member order.
C31_SplitCountAndNames ==
    SplitDone =>
        \A g \in 1..Len(groups) : IsSplit(g) =>
            /\ Len(SubGroupsOf(g)) = NumSplitsOf(g)
            /\ ChunksInNameOrder(g)

\* what holds of the count: never more sub-groups than ceil(total / budget),
\* with the chunk sizes, order and names as claimed
C31_AtMostNumSplits ==
    SplitDone =>
        \A g \in 1..Len(groups) : IsSplit(g) =>
            /\ Len(SubGroupsOf(g)) <= NumSplitsOf(g)
            /\ ChunksInNameOrder(g)

\* an oversized group emitted as fewer sub-groups than ceil(total / budget)
C31_FewerSubGroupsCase ==
    /\ SplitDone
    /\ \E g \in 1..Len(groups) :
          /\ IsSplit(g)
          /\ Len(groups[g].namespaces) >= 2
          /\ Len(SubGroupsOf(g)) < NumSplitsOf(g)
          /\ \A k \in 1..Len(SubGroupsOf(g)) : SubGroupsOf(g)[k] \in Range(dispatch)

\* ------------------------------------------------------- guardrail claims

\* C14: once a check_guardrails call on a tracker has returned EXCEEDED, every
\* later call returns EXCEEDED, whatever record() calls complete in between.
C14_ExceededIsPermanent ==
    [][ checked.status = "exceeded" => checked'.status = "exceeded" ]_vars

\* a check has returned, having read the cost and, where it got that far,
\* the call count
CheckReturned == checked.status # "none" /\ ~checked.reading

\* the status the claim prescribes for a cost and a call count
PrescribedStatus(c, cost, calls) ==
    CASE ~c.enabled -> "ok"
      [] c.enabled /\ (cost >= c.max_cost_per_run_usd \/ calls >= c.max_sub_lm_calls)
           -> "exceeded"
      [] c.enabled /\ cost < c.max_cost_per_run_usd /\ calls < c.max_sub_lm_calls
                   /\ cost >= c.warn_cost_threshold_usd -> "warning"
      [] OTHER -> "ok"

\* costs and call counts at, just under and just over the configured values
CostPoints(c) ==
    { 0, c.warn_cost_threshold_usd - 1, c.warn_cost_threshold_usd,
      c.warn_cost_threshold_usd + 1, c.max_cost_per_run_usd - 1,
      c.max_cost_per_run_usd, c.max_cost_per_run_usd + 1 }

CallPoints(c) == { 0, c.max_sub_lm_calls - 1, c.max_sub_lm_calls, c.max_sub_lm_calls + 1 }

\* C15: a check returns OK when guardrails are disabled; when enabled it
\* returns EXCEEDED iff the cost it read is at least max_cost_per_run_usd or
\* the call count it read is at least max_sub_lm_calls, otherwise WARNING iff
\* the cost is at least warn_cost_threshold_usd, otherwise OK.  The same holds
\* of check_guardrails at every cost and call count around the configured
\* values.
C15_StatusAsPrescribed ==
    /\ CheckReturned => checked.status = PrescribedStatus(cfg, checked.cost, checked.calls)
    /\ \A cost \in CostPoints(cfg) : \A calls \in CallPoints(cfg) :
          check_guardrails(cfg, AsRead(tracker, cost, calls))
             = PrescribedStatus(cfg, cost, calls)

\* checks have returned EXCEEDED on the call count alone with the cost under
\* the warning threshold
C15_Witness ==
    /\ CheckReturned
    /\ checked.status = "exceeded"
    /\ checked.calls = cfg.max_sub_lm_calls
    /\ checked.cost < cfg.warn_cost_threshold_usd

\* a check returned WARNING at exactly the warning threshold
C15_WarningCase ==
    /\ CheckReturned
    /\ checked.status = "warning"
    /\ checked.cost = cfg.warn_cost_threshold_usd

\* ------------------------------------------------- validate_flow_analysis

\* the object json.loads produced from the text
ParsedObject == raw_text.payload

ValidateReturned == validated.status # "none"

\* the required sub-fields entry i of list value v lacks
LackedBy(v, i, required) == required \ v.entries[i].keys

\* the entries of v that are objects and lack a required sub-field
LackingEntries(v, required) ==
    { i \in 1..Len(v.entries) : v.entries[i].dict /\ LackedBy(v, i, required) # {} }

AllObjects(v) == \A i \in 1..Len(v.entries) : v.entries[i].dict

\* the ValidationError names fields the parsed object does lack: top-level
\* fields, or the sub-fields of one namespace or data-flow entry
NamesMissingField ==
    /\ validated.status = "ValidationError"
    /\ validated.msg.fields # {}
    /\ \/ /\ validated.msg.text = "missing required fields"
          /\ validated.msg.fields = REQUIRED \ ParsedObject.keys
       \/ /\ validated.msg.text = "namespace missing required"
          /\ validated.msg.index \in LackingEntries(ParsedObject.namespaces, NAMESPACE_REQUIRED)
          /\ validated.msg.fields =
                LackedBy(ParsedObject.namespaces, validated.msg.index, NAMESPACE_REQUIRED)
       \/ /\ validated.msg.text = "data_flow missing required"
          /\ validated.msg.index \in LackingEntries(ParsedObject.data_flow, DATA_FLOW_REQUIRED)
          /\ validated.msg.fields =
                LackedBy(ParsedObject.data_flow, validated.msg.index, DATA_FLOW_REQUIRED)

LacksAField ==
    \/ REQUIRED \ ParsedObject.keys # {}
    \/ LackingEntries(ParsedObject.namespaces, NAMESPACE_REQUIRED) # {}
    \/ LackingEntries(ParsedObject.data_flow, DATA_FLOW_REQUIRED) # {}

\* C20: for a parsed object whose namespace and data-flow entries are all
\* objects, validate_flow_analysis fails with a ValidationError naming the
\* missing field when a required top-level field is absent or a namespace or
\* data-flow entry lacks a required sub-field, and returns the parsed object
\* when no field is missing.
C20_MissingFieldNamed ==
    (/\ ValidateReturned
     /\ AllObjects(ParsedObject.namespaces)
     /\ AllObjects(ParsedObject.data_flow)) =>
        IF LacksAField THEN NamesMissingField
        ELSE validated.status = "ok" /\ validated.data = ParsedObject

\* the parsed object's namespaces and data_flow values are lists
ListValued == ParsedObject.namespaces.list /\ ParsedObject.data_flow.list

\* the statement of C20 for parsed objects whose namespaces and data_flow
\* values are lists of objects
C20_ListValuedDocuments ==
    (ListValued /\ ValidateReturned /\ AllObjects(ParsedObject.namespaces)
       /\ AllObjects(ParsedObject.data_flow)) =>
        IF LacksAField THEN NamesMissingField
        ELSE validated.status = "ok" /\ validated.data = ParsedObject

\* a data-flow entry lacks "from" in an object whose namespaces value is
\* null, and the call has ended
C20_NullNamespacesCase ==
    /\ ValidateReturned
    /\ REQUIRED \ ParsedObject.keys = {}
    /\ ~ParsedObject.namespaces.list
    /\ ParsedObject.data_flow.list
    /\ AllObjects(ParsedObject.data_flow)
    /\ \E i \in LackingEntries(ParsedObject.data_flow, DATA_FLOW_REQUIRED) :
          LackedBy(ParsedObject.data_flow, i, DATA_FLOW_REQUIRED) = {"from"}
    /\ validated.status = "TypeError"

\* ------------------------------------------------------- reduce_to_beads

ReduceEnded == rd.pc \in {"returned", "raised"}

\* the first loop has reached analysis k
Attempted(k) ==
    /\ k \in 1..Len(rd.analyses)
    /\ IF rd.pc = "create" THEN k < rd.i
       ELSE IF rd.pc = "raised" /\ rd.e = 0 THEN k <= rd.i
       ELSE rd.pc # "unused"

BdCommands(cmd) == { n \in 1..Len(bd_log) : bd_log[n].argv[1] = cmd }

\* the record of analysis k was created
Created(k) ==
    \E n \in BdCommands("create") : bd_log[n].flow = k /\ bd_log[n].out = "zero"

\* creating the record of analysis k failed: a tag was rejected, bd ended
\* with a non-zero exit code, or bd timed out
CreateFailed(k) ==
    /\ Attempted(k)
    /\ \/ ~ChecksPass(create_bead(TagList(rd.analyses[k])))
       \/ \E n \in BdCommands("create") : bd_log[n].flow = k /\ bd_log[n].out # "zero"

\* a link was issued from the record of analysis j to the record of
\* analysis k
Linked(j, k) ==
    \E n \in BdCommands("dep") : bd_log[n].argv = <<"dep", NewBeadId(j), NewBeadId(k)>>

\* a link was issued while the second loop handled analysis k
LinkedFrom(k) == \E n \in BdCommands("dep") : bd_log[n].flow = k

\* C21: when creating the record of one flow has failed (bd error, rejected
\* tag or timeout), reduce_to_beads still ends by returning its summary, it
\* has tried to create the record of every other flow, and it has issued no
\* link from or to the flow whose creation failed.
C21_CreateFailureTolerated ==
    ReduceEnded =>
        \A k \in 1..Len(rd.analyses) : CreateFailed(k) =>
            /\ rd.pc = "returned"
            /\ \A j \in 1..Len(rd.analyses) : Created(j) \/ CreateFailed(j)
            /\ ~LinkedFrom(k)
            /\ \A j \in 1..Len(rd.analyses) : ~Linked(j, k)

\* every tag is accepted, no bd command times out, and the analyses have
\* distinct flow names
PlainReduction ==
    /\ \A k \in 1..Len(rd.analyses) :
          /\ ChecksPass(create_bead(TagList(rd.analyses[k])))
          /\ \A j \in 1..Len(rd.analyses) :
                rd.analyses[j].flow_name = rd.analyses[k].flow_name => j = k
    /\ \A n \in 1..Len(bd_log) : bd_log[n].out # "timeout"

\* the statement of C21 for creations that fail with a non-zero exit code of
\* bd, in reductions of distinctly named flows
C21_ExitCodeFailureTolerated ==
    (ReduceEnded /\ PlainReduction) =>
        \A k \in 1..Len(rd.analyses) : CreateFailed(k) =>
            /\ rd.pc = "returned"
            /\ \A j \in 1..Len(rd.analyses) : Created(j) \/ CreateFailed(j)
            /\ ~LinkedFrom(k)
            /\ \A j \in 1..Len(rd.analyses) : ~Linked(j, k)

\* the reduction of two analyses has ended with ValueError at the first,
\* whose tag was rejected, and no bd create was run for the second
C21_RejectedTagCase ==
    /\ rd.pc = "raised"
    /\ rd.exc = "ValueError"
    /\ Len(rd.analyses) = 2
    /\ rd.i = 1
    /\ ChecksPass(create_bead(TagList(rd.analyses[2])))
    /\ bd_log = << >>

\* the analyses that list the target namespace of edge e of analysis j
Owners(j, e) ==
    { k \in 1..Len(rd.analyses) : rd.analyses[j].data_flow[e] \in rd.analyses[k].namespaces }

\* the links issued for edge e of analysis j
LinksFor(j, e) == { n \in BdCommands("dep") : bd_log[n].flow = j /\ bd_log[n].edge = e }

EdgeLinkedAsPrescribed(j, e) ==
    /\ \A k \in 1..Len(rd.analyses) :
          (Owners(j, e) = {k} /\ k # j /\ Created(j) /\ Created(k)) =>
              /\ Cardinality(LinksFor(j, e)) = 1
              /\ \A n \in LinksFor(j, e) :
                    bd_log[n].argv = <<"dep", NewBeadId(j), NewBeadId(k)>>
    /\ Owners(j, e) \subseteq {j} => LinksFor(j, e) = {}

\* C22: when reduce_to_beads has ended, every data-flow edge of a flow A
\* whose target namespace belongs to one other flow B, both records created,
\* has exactly one link, from A's record to B's record; an edge whose target
\* belongs to A itself or to no analysed flow has no link.
C22_OneLinkPerCrossFlowEdge ==
    ReduceEnded =>
        \A j \in 1..Len(rd.analyses) : \A e \in 1..Len(rd.analyses[j].data_flow) :
            EdgeLinkedAsPrescribed(j, e)

\* the statement of C22 for reductions of distinctly named flows in which no
\* tag is rejected and no bd command times out
C22_PlainReductionLinks ==
    (ReduceEnded /\ PlainReduction) =>
        \A j \in 1..Len(rd.analyses) : \A e \in 1..Len(rd.analyses[j].data_flow) :
            EdgeLinkedAsPrescribed(j, e)

\* two analyses of the same flow_name with disjoint namespaces, both records
\* created; the first has an edge into the second's namespace; the summary
\* is returned and no link was issued
C22_SameNameCase ==
    /\ rd.pc = "returned"
    /\ Len(rd.analyses) = 2
    /\ rd.analyses[1].flow_name = rd.analyses[2].flow_name
    /\ rd.analyses[1].namespaces = {1} /\ rd.analyses[2].namespaces = {2}
    /\ Created(1) /\ Created(2)
    /\ rd.analyses[1].data_flow = <<2>>
    /\ BdCommands("dep") = {}

\* a plain reduction of two flows has returned after linking the first
\* flow's record to the second's
C22_PlainLinkCase ==
    /\ rd.pc = "returned"
    /\ PlainReduction
    /\ Linked(1, 2)
    /\ rd.links_created = 1

\* identifier id was returned by a create command that ran before command n
ReturnedBefore(id, n) ==
    \E m \in BdCommands("create") :
        m < n /\ bd_log[m].out = "zero" /\ NewBeadId(bd_log[m].flow) = id

\* C36: in reduce_to_beads every create call for every analysis happens
\* before the first link call, and a link is issued only between two record
\* identifiers that create calls of the same reduction returned earlier.
C36_CreatesBeforeLinks ==
    \A n \in BdCommands("dep") :
        /\ \A m \in BdCommands("create") : m < n
        /\ \A k \in 1..Len(rd.analyses) :
              \E m \in BdCommands("create") : m < n /\ bd_log[m].flow = k
        /\ ReturnedBefore(bd_log[n].argv[2], n)
        /\ ReturnedBefore(bd_log[n].argv[3], n)
        /\ bd_log[n].argv[2] # bd_log[n].argv[3]

\* two flows that feed each other: both records were created, then each was
\* linked to the other
C36_Witness ==
    /\ rd.pc = "returned"
    /\ Len(rd.analyses) = 2
    /\ Created(1) /\ Created(2)
    /\ Linked(1, 2) /\ Linked(2, 1)
    /\ Cardinality(BdCommands("dep")) = 2

\* the link operations bd reported as successful
SuccessfulLinks == { n \in BdCommands("dep") : bd_log[n].out = "zero" }

\* C38: the links_created count reduce_to_beads returns equals the number of
\* link operations that bd reported as successful during the reduction.
C38_LinksCreatedCountsSuccesses ==
    rd.pc = "returned" => rd.links_created = Cardinality(SuccessfulLinks)

\* what the count is: the link operations that ended, successful or not
C38_LinksCreatedCountsAttempts ==
    rd.pc = "returned" => rd.links_created = Cardinality(BdCommands("dep"))

\* the only link of a reduction failed with a non-zero exit code and the
\* summary reports one link created
C38_FailedLinkCountedCase ==
    /\ rd.pc = "returned"
    /\ Cardinality(BdCommands("dep")) = 1
    /\ SuccessfulLinks = {}
    /\ rd.links_created = 1

\* ------------------------------------------------------------ bd wrappers

\* every identifier and every tag of the call matches the allow-list pattern
ArgumentsMatch ==
    /\ \A i \in 1..Len(tool.call.ids) : MatchesAllowList(tool.call.ids[i])
    /\ \A i \in 1..Len(tool.call.tags) : MatchesAllowList(tool.call.tags[i])

ToolEnded == tool.status \notin {"none", "running"}

\* C23: a call of create_bead, link_beads, tag_bead, comment_bead or
\* close_bead has run a bd command only if every identifier and tag argument
\* matches the allow-list pattern; a call with an argument that does not
\* match ends with ValueError, and a call that ends with ValueError has run
\* no bd command.
C23_ValidatedBeforeBd ==
    /\ bd_log # << >> => ArgumentsMatch
    /\ (ToolEnded /\ ~ArgumentsMatch) => tool.status = "ValueError"
    /\ tool.status = "ValueError" => bd_log = << >>

\* a tag_bead call whose identifier and first tag match and whose second tag
\* does not has ended with ValueError
C23_Witness ==
    /\ tool.call.name = "tag_bead"
    /\ MatchesAllowList(tool.call.ids[1])
    /\ Len(tool.call.tags) = 2
    /\ MatchesAllowList(tool.call.tags[1])
    /\ ~MatchesAllowList(tool.call.tags[2])
    /\ tool.status = "ValueError"
    /\ bd_log = << >>

\* a link_beads call whose identifiers match has run its bd command
C23_LinkRuns ==
    /\ tool.call.name = "link_beads"
    /\ ArgumentsMatch
    /\ tool.status = "returned"
    /\ Len(bd_log) = 1

\* ------------------------------------------------------- _run_repl_loop

ReplReturned == repl.pc = "returned"

ReplEnded == repl.pc \in {"returned", "raised"}

ReplStatuses == {"completed", "budget_exceeded", "max_iterations", "error"}

\* the loop's counters and result respect the iteration limit, and a run in
\* which no code called FINAL, no root call failed and the guardrail did
\* not trip ends as max_iterations after root_max_iterations iterations
BoundedAsPrescribed ==
    /\ repl.root_calls <= root_max_iterations
    /\ ReplReturned =>
          /\ repl.status \in ReplStatuses
          /\ repl.iterations <= root_max_iterations
    /\ (ReplEnded /\ repl.final_calls = 0
          /\ repl.status \notin {"error", "budget_exceeded"}) =>
          /\ repl.status = "max_iterations"
          /\ repl.iterations = root_max_iterations

\* C24: the REPL loop never ends without a result: it calls the root model
\* at most root_max_iterations times and returns one of the four statuses
\* with iterations <= root_max_iterations; with no FINAL call, no failed
\* root call and no guardrail trip it returns max_iterations with
\* iterations = root_max_iterations.
C24_LoopReturnsWithinLimit ==
    /\ repl.pc # "raised"
    /\ BoundedAsPrescribed

\* the statement of C24 for runs whose executed code returns or raises an
\* Exception
C24_OrdinaryCode == repl.pc # "raised" => BoundedAsPrescribed

\* a run with root_max_iterations = 2 has ended in its second iteration by
\* an exception of the executed code that no except clause of the loop
\* catches
C24_EscapeCase ==
    /\ repl.pc = "raised"
    /\ root_max_iterations = 2
    /\ repl.iterations = 2
    /\ repl.final_calls = 0

\* a run of three iterations has returned max_iterations
C24_MaxIterationsCase ==
    /\ ReplReturned
    /\ repl.status = "max_iterations"
    /\ repl.iterations = 3
    /\ repl.root_calls = 3

\* the step executes the code of an iteration
ExecStep == repl.pc = "exec" /\ repl'.pc # "exec"

\* the step ends the loop as completed with the argument of FINAL
EndsCompleted ==
    /\ repl'.pc = "returned"
    /\ repl'.status = "completed"
    /\ repl'.output = repl'.final_arg
    /\ repl'.iterations = repl.iterations

\* the step leaves the loop running: the for statement is next
LoopGoesOn == repl'.pc = "head" /\ repl'.iteration = repl.iteration + 1

\* C25: the iteration whose code calls FINAL(x) ends the loop with status
\* completed and output x, and the root model is not called after a return;
\* the iteration whose code raises an Exception without calling FINAL leaves
\* the loop running.
C25_FinalEndsLoop ==
    /\ [][ (ExecStep /\ repl'.final # "none") => EndsCompleted ]_vars
    /\ [][ repl.pc = "returned" => repl'.root_calls = repl.root_calls ]_vars
    /\ [][ (ExecStep /\ repl'.final = "none" /\ repl'.ended = "Exception")
              => LoopGoesOn ]_vars

\* the statement of C25 for FINAL calls whose _FinalSignal reaches the loop
C25_PropagatedFinalEndsLoop ==
    /\ [][ (ExecStep /\ repl'.final = "raised") => EndsCompleted ]_vars
    /\ [][ repl.pc = "returned" => repl'.root_calls = repl.root_calls ]_vars
    /\ [][ (ExecStep /\ repl'.final = "none" /\ repl'.ended = "Exception")
              => LoopGoesOn ]_vars

\* the root model has been called a second time although the code of the
\* first iteration called FINAL
C25_SwallowedFinalCase ==
    /\ repl.root_calls = 2
    /\ repl.pc = "exec"
    /\ repl.final = "caught"
    /\ repl.final_calls = 1

\* the step calls the root model
RootCallStep == repl'.root_calls = repl.root_calls + 1

\* C26: an iteration whose guardrail check finds EXCEEDED returns
\* budget_exceeded without calling the root model; the root model is only
\* called in an iteration whose own check, on the tracker as it is at the
\* call, did not find EXCEEDED; after budget_exceeded it is never called.
C26_CheckedBeforeRootCall ==
    /\ [][ (repl.pc = "head" /\ repl.iteration < root_max_iterations
              /\ check_guardrails(cfg, tracker) = "exceeded")
           => /\ repl'.pc = "returned"
              /\ repl'.status = "budget_exceeded"
              /\ repl'.iterations = repl.iteration + 1
              /\ repl'.root_calls = repl.root_calls ]_vars
    /\ [][ RootCallStep =>
              /\ repl.guard = check_guardrails(cfg, tracker)
              /\ repl.guard # "exceeded"
              /\ repl.iterations = repl.iteration + 1 ]_vars
    /\ [][ repl.status = "budget_exceeded" => ~RootCallStep ]_vars

\* a run has returned budget_exceeded in its third iteration, after two root
\* calls
C26_Witness ==
    /\ ReplReturned
    /\ repl.status = "budget_exceeded"
    /\ repl.iterations = 3
    /\ repl.root_calls = 2
    /\ repl.guard = "exceeded"

\* ------------------------------------------------------------ batch claims

\* the pass of the as_completed loop for call i stored its text
BatchCollected(i) ==
    /\ i \in Range(batch.order)
    /\ ~(batch.tripped /\ batch.order[Len(batch.order)] = i)

\* C35: the list _call_sub_lm_batched returns has the length of prompts, and
\* position i holds the response the call for prompts[i] got, whatever the
\* order in which the calls completed, or the empty string when the result of
\* position i was not collected because the guardrail tripped.
C35_BatchedResultsInPromptOrder ==
    batch.pc = "returned" =>
        /\ Len(batch.returned) = Len(batch.prompts)
        /\ \A i \in 1..Len(batch.prompts) :
              \/ /\ batch.returned[i] = Reply(i, batch.prompts[i])
                 /\ batch.fut[i].text = batch.returned[i]
                 /\ BatchCollected(i)
              \/ /\ batch.returned[i] = EmptyReply
                 /\ batch.tripped
                 /\ ~BatchCollected(i)

\* two prompts whose calls completed in the opposite order, each response
\* returned at the position of its prompt
C35_Witness ==
    /\ batch.pc = "returned"
    /\ Len(batch.prompts) = 2
    /\ batch.order = <<2, 1>>
    /\ batch.returned = <<Reply(1, batch.prompts[1]), Reply(2, batch.prompts[2])>>

\* the guardrail tripped at the second completion, which was that of the
\* first prompt: its position holds the empty string
C35_TrippedCase ==
    /\ batch.pc = "returned"
    /\ batch.order = <<2, 1>>
    /\ batch.tripped
    /\ batch.returned = <<EmptyReply, Reply(2, batch.prompts[2])>>

\* ----------------------------------------------------- orchestrator claims

OrchReturned == orch.pc = "returned"

\* C37: run() writes the analysis metadata only when the engine's status is
\* completed and a current SHA is known, and then writes that SHA; a run that
\* is skipped as fresh or ends in error, budget_exceeded or max_iterations
\* leaves the stored metadata unchanged; a fresh, unforced run invokes no
\* engine.
C37_MetadataOnlyOnSuccess ==
    /\ [][ (orch.pc # "unused" /\ (orch'.stored # orch.stored \/ orch'.stores # orch.stores)) =>
              /\ orch'.pc = "returned"
              /\ orch'.status = "completed"
              /\ orch.staleness.current_sha # NoSha
              /\ orch'.stored = Metadata(orch.staleness.current_sha)
              /\ orch'.engine_runs = 1 ]_vars
    /\ []((OrchReturned /\ orch.status \in {"skipped_fresh", "error", "budget_exceeded",
                                            "max_iterations"}) => orch.stores = 0)
    /\ []((OrchReturned /\ orch.status = "completed") =>
              orch.stores = (IF orch.commit_sha # NoSha THEN 1 ELSE 0))
    /\ []((orch.pc \notin {"unused", "idle"} /\ ~orch.force /\ orch.staleness.status = "fresh") =>
              /\ orch.engine_runs = 0
              /\ OrchReturned
              /\ orch.status = "skipped_fresh")

\* a stale analysis was redone: the engine completed and the metadata now
\* names the current commit instead of the one stored before
C37_Witness ==
    /\ OrchReturned
    /\ orch.status = "completed"
    /\ orch.staleness.status = "stale"
    /\ orch.staleness.last_sha = "a"
    /\ orch.stored = Metadata("b")
    /\ orch.stores = 1

\* a forced run of a fresh analysis ended over budget: the engine ran and
\* the metadata is as before
C37_ForcedBudgetCase ==
    /\ OrchReturned
    /\ orch.force
    /\ orch.staleness.status = "fresh"
    /\ orch.status = "budget_exceeded"
    /\ orch.engine_runs = 1
    /\ orch.stored = Metadata(orch.staleness.last_sha)
=============================================================================
